---- MODULE Spec2Model ----
(***************************************************************************)
(* Construction of the sequential networks of torchrl/modules/models/      *)
(* models.py: MLP, ConvNet and Conv3dNet.  A constructor call is one       *)
(* action: it draws its arguments, runs __init__ (with _make_net) to the   *)
(* end or to the first raise, and leaves the attributes set on self, the   *)
(* modules created and the exception raised.                               *)
(***************************************************************************)
EXTENDS Integers, Sequences, FiniteSets, TLC

VARIABLES pc, args, self, layers, raised, inputs, fed, ret, params, scale,
          comp, res, td

\* the tensors of a forward call: its arguments, the tensor handed to the
\* stack of modules, and its result
fwdvars == <<inputs, fed, ret>>

\* the parameters of the network's modules and the scale of the latest
\* reinitialisation of a last layer
parvars == <<params, scale>>

\* a composite network, the result of its forward call, and a tensordict
compvars == <<comp, res, td>>

vars == <<pc, args, self, layers, raised, inputs, fed, ret, params, scale,
          comp, res, td>>

(* ---------------------------- bounds ----------------------------------- *)

\* longest sequence a caller passes for num_cells / kernel_sizes / ...
MaxLen == 2
\* largest explicit depth a caller passes
MaxDepth == 3

(* ------------------------ python values -------------------------------- *)

\* Python None for an optional integer argument; no integer input has
\* this value.
None == 0 - 1000

\* An argument that may be None, an int or a sequence of ints.
NoneArg == [tag |-> "none", v |-> 0, s |-> <<>>]
IntArg(n) == [tag |-> "int", v |-> n, s |-> <<>>]
SeqArg(q) == [tag |-> "seq", v |-> 0, s |-> q]

\* isinstance(x, Sequence)
isSequence(x) == x.tag = "seq"
\* isinstance(x, Number)
isNumber(x) == x.tag = "int"

\* [x] * n : the empty list when n <= 0
Repeat(x, n) == IF n <= 0 THEN <<>> ELSE [i \in 1..n |-> x]

RECURSIVE prod(_)
\* torchrl._utils.prod: product of the entries of a sequence
prod(q) == IF q = <<>> THEN 1 ELSE Head(q) * prod(Tail(q))

\* all sequences over S of length at most n
SeqsUpTo(S, n) == UNION {[1..k -> S] : k \in 0..n}

(* ------------------------- tensors ------------------------------------- *)

\* A tensor is its shape, its content (the numbered blocks it is made of
\* along the last axis) and the stack of modules that computed it from
\* that content ("input" when none did).
Tensor(shape, data, by) == [shape |-> shape, data |-> data, by |-> by]

\* no tensor
NoTensor == [shape |-> <<>>, data |-> <<>>, by |-> "none"]

\* s[:-n] and s[-n:] of a shape
DropLast(q, n) == SubSeq(q, 1, Len(q) - n)
TakeLast(q, n) == SubSeq(q, Len(q) - n + 1, Len(q))

\* a local name: F applied to the value v that a statement computed
With(v, F(_)) == F(v)

\* A dict is a function from its keys; update and get are Python's.
EmptyDict == [k \in {} |-> 0]

Update_defaultsWin(d, o) ==
    [k \in DOMAIN d \cup DOMAIN o |-> IF k \in DOMAIN d THEN d[k] ELSE o[k]]

Update(d, o) ==
    [k \in DOMAIN d \cup DOMAIN o |-> IF k \in DOMAIN o THEN o[k] ELSE d[k]]

Get(d, k, default) == IF k \in DOMAIN d THEN d[k] ELSE default

\* no composite network, no result of one
NoComp == [cls |-> "none"]
NoRes == [raised |-> "none", den |-> 1, num |-> <<>>]

(* ------------------------- modules ------------------------------------- *)

\* A weighted layer (linear or convolution).  A lazy layer is built from
\* its output width only, its input width shows as 0 until first use.
Layer(cls, in, out, bias, lazy) ==
    [kind |-> "layer", cls |-> cls, in |-> in, out |-> out,
     bias |-> bias, lazy |-> lazy,
     kernel_size |-> 0, stride |-> 0, padding |-> 0]

\* Any module without widths: dropout, norm, activation, aggregator, squeeze
Module(kind) ==
    [kind |-> kind, cls |-> kind, in |-> 0, out |-> 0,
     bias |-> FALSE, lazy |-> FALSE,
     kernel_size |-> 0, stride |-> 0, padding |-> 0]

\* torchrl.modules.models.utils.LazyMapping: layer class -> lazy variant
LazyMapping == [Linear |-> "LazyLinear", NoisyLinear |-> "NoisyLazyLinear"]

(* --------------------------- MLP --------------------------------------- *)

default_num_cells == 32
\* depth used when neither depth nor num_cells is given
default_depth == 3

\* lines 171-176: num_cells after the defaulting of a missing num_cells
MLP_num_cells_default(depth, num_cells) ==
    IF num_cells.tag = "none"
    THEN IF depth = None
         THEN SeqArg(Repeat(default_num_cells, default_depth))
         ELSE SeqArg(Repeat(default_num_cells, depth))
    ELSE num_cells

\* lines 171-176: depth after the defaulting of a missing num_cells
MLP_depth_default(depth, num_cells) ==
    IF num_cells.tag = "none" /\ depth = None THEN default_depth ELSE depth

\* lines 180-182
MLP_out_features_num(out_features) ==
    IF isNumber(out_features) THEN out_features.v ELSE prod(out_features.s)

MLP_int_without_depth_never(num_cells, depth) == FALSE

\* line 200: an integer num_cells needs a depth
MLP_int_without_depth(num_cells, depth) ==
    ~(isSequence(num_cells) \/ depth # None)

\* lines 205-207
MLP_num_cells(num_cells, depth) ==
    IF isSequence(num_cells) THEN num_cells.s ELSE Repeat(num_cells.v, depth)

\* line 208
MLP_depth(depth, num_cells_list) ==
    IF depth # None THEN depth ELSE Len(num_cells_list)

MLP_length_conflict_noCheck(num_cells_list, depth) == FALSE

\* line 209: depth and len(num_cells) disagree
MLP_length_conflict(num_cells_list, depth) ==
    ~(Len(num_cells_list) = depth \/ depth = None)

MLP_in_list_allDefault(s) ==
    <<s.in_features>> \o Repeat(default_num_cells, Len(s.num_cells))

\* line 219
MLP_in_list(s) == <<s.in_features>> \o s.num_cells

\* line 220
MLP_out_list(s) == s.num_cells \o <<s.out_features_num>>

MLP_bias_always(i, s) == TRUE

\* line 222, i counted from 0
MLP_bias(i, s) == IF i = s.depth THEN s.bias_last_layer ELSE TRUE

\* lines 223, 235-241: the KeyError of a layer class without lazy variant
MLP_lazy_missing(_in, s) ==
    _in = None /\ s.layer_class \notin DOMAIN LazyMapping

MLP_layer_neverLazy(i, _in, _out, s) ==
    Layer(s.layer_class, IF _in # None THEN _in ELSE 0, _out,
          MLP_bias(i, s), FALSE)

\* lines 223-246: the weighted layer of iteration i
MLP_layer(i, _in, _out, s) ==
    IF _in # None
    THEN Layer(s.layer_class, _in, _out, MLP_bias(i, s), FALSE)
    ELSE Layer(LazyMapping[s.layer_class], 0, _out, MLP_bias(i, s), TRUE)

MLP_post_normFirst(i, s) ==
    IF i < s.depth \/ s.activate_last_layer
    THEN (IF s.norm_class THEN <<Module("norm")>> ELSE <<>>)
         \o (IF s.dropout THEN <<Module("dropout")>> ELSE <<>>)
         \o <<Module("activation")>>
    ELSE <<>>

\* lines 248-259: what follows the weighted layer of iteration i
MLP_post(i, s) ==
    IF i < s.depth \/ s.activate_last_layer
    THEN (IF s.dropout THEN <<Module("dropout")>> ELSE <<>>)
         \o (IF s.norm_class THEN <<Module("norm")>> ELSE <<>>)
         \o <<Module("activation")>>
    ELSE <<>>

RECURSIVE MLP_loop(_, _, _)
\* lines 221-259: iterations i, i+1, ... of the loop over
\* zip(in_features, out_features), acc being the local list `layers`
MLP_loop(i, s, acc) ==
    LET ins == MLP_in_list(s)
        outs == MLP_out_list(s)
        n == IF Len(ins) < Len(outs) THEN Len(ins) ELSE Len(outs)
    IN IF i >= n
       THEN [raised |-> "none", layers |-> acc]
       ELSE IF MLP_lazy_missing(ins[i + 1], s)
            THEN [raised |-> "KeyError", layers |-> acc]
            ELSE MLP_loop(i + 1, s,
                          acc \o <<MLP_layer(i, ins[i + 1], outs[i + 1], s)>>
                              \o MLP_post(i, s))

\* lines 217-261
MLP_make_net(s) == MLP_loop(0, s, <<>>)

\* attributes of an object on which nothing has been set yet
NoSelf ==
    [in_features |-> None, out_features_num |-> None, depth |-> None,
     num_cells |-> <<>>, kernel_sizes |-> <<>>, strides |-> <<>>,
     paddings |-> <<>>, out_features |-> None,
     norm_class |-> FALSE, dropout |-> FALSE, bias_last_layer |-> FALSE,
     layer_class |-> "Linear", activate_last_layer |-> FALSE,
     aggregator_class |-> FALSE, squeeze_output |-> FALSE]

Raise(err, s, ls) == [raised |-> err, self |-> s, layers |-> ls]

\* lines 167-215: the outcome of MLP(**a)
MLP_init(a) ==
    IF a.out_features.tag = "none"
    THEN Raise("ValueError", NoSelf, <<>>)
    ELSE
    LET num_cells == MLP_num_cells_default(a.depth, a.num_cells)
        depth == MLP_depth_default(a.depth, a.num_cells)
        s1 == [NoSelf EXCEPT
                 !.in_features = a.in_features,
                 !.out_features_num = MLP_out_features_num(a.out_features),
                 !.norm_class = a.norm_class,
                 !.dropout = a.dropout,
                 !.bias_last_layer = a.bias_last_layer,
                 !.layer_class = a.layer_class,
                 !.activate_last_layer = a.activate_last_layer]
    IN IF a.single_bias_last_layer
       THEN Raise("NotImplementedError", s1, <<>>)
       ELSE IF MLP_int_without_depth(num_cells, depth)
       THEN Raise("RuntimeError", s1, <<>>)
       ELSE
       LET s2 == [s1 EXCEPT !.num_cells = MLP_num_cells(num_cells, depth)]
           s3 == [s2 EXCEPT !.depth = MLP_depth(depth, s2.num_cells)]
       IN IF MLP_length_conflict(s3.num_cells, depth)
          THEN Raise("RuntimeError", s3, <<>>)
          ELSE LET net == MLP_make_net(s3)
               IN Raise(net.raised, s3, net.layers)

(* ------------------- ConvNet and Conv3dNet ----------------------------- *)

Conv_num_cells_default_byDepth(cls, depth, num_cells) ==
    IF num_cells.tag # "none" THEN num_cells
    ELSE IF depth = None
         THEN SeqArg(<<32, 32, 32>>)
         ELSE SeqArg(Repeat(32, depth))

\* lines 374-375 (ConvNet) and 595-599 (Conv3dNet)
Conv_num_cells_default(cls, depth, num_cells) ==
    IF num_cells.tag # "none" THEN num_cells
    ELSE IF cls = "ConvNet" \/ depth = None
         THEN SeqArg(<<32, 32, 32>>)
         ELSE SeqArg(Repeat(32, depth))

\* torchrl.modules.models.utils._find_depth: the lengths of the
\* sequence-valued arguments are the depth candidates and must agree; an
\* explicit depth is returned as given, else the candidate, else the default
_find_depth(depth, list_or_ints) ==
    LET cands == {Len(list_or_ints[k].s) :
                    k \in {j \in DOMAIN list_or_ints :
                             isSequence(list_or_ints[j])}}
    IN IF Cardinality(cands) > 1
       THEN [raised |-> "ConfigurationError", depth |-> None]
       ELSE IF depth # None
       THEN [raised |-> "none", depth |-> depth]
       ELSE IF cands # {}
       THEN [raised |-> "none", depth |-> CHOOSE c \in cands : TRUE]
       ELSE [raised |-> "none", depth |-> default_depth]

\* lines 394 and 618
Conv_null_depth(depth) == depth = 0

Conv_fields == <<"num_cells", "kernel_sizes", "strides", "paddings">>

\* lines 405 and 629: a scalar is repeated depth times
Conv_broadcast(_value, _depth) ==
    IF isSequence(_value) THEN _value.s ELSE Repeat(_value.v, _depth)

Conv_length_conflict_noCheck(field_list, _depth) == FALSE

\* lines 412 and 631: the length of a field and the depth disagree
Conv_length_conflict(field_list, _depth) ==
    ~(Len(field_list) = _depth \/ _depth = None)

RECURSIVE Conv_set_fields(_, _, _, _, _)
\* lines 397-416 and 621-635: the loop over the four per-layer fields,
\* from field k on
Conv_set_fields(k, cls, s, depth, values) ==
    IF k > Len(Conv_fields)
    THEN [raised |-> "none", self |-> s]
    ELSE
    LET _value == values[k]
    IN IF ~isSequence(_value) /\ depth = None
       THEN [raised |-> "TypeError", self |-> s]
       ELSE
       LET s1 == [s EXCEPT ![Conv_fields[k]] = Conv_broadcast(_value, depth)]
       IN IF Conv_length_conflict(s1[Conv_fields[k]], depth)
          THEN [raised |-> IF cls = "ConvNet" THEN "RuntimeError"
                                              ELSE "ValueError",
                self |-> s1]
          ELSE Conv_set_fields(k + 1, cls, s1, depth, values)

\* s[:n] of a list
Prefix(q, n) ==
    SubSeq(q, 1, IF n < 0 THEN 0 ELSE IF n > Len(q) THEN Len(q) ELSE n)

Min(S) == CHOOSE x \in S : \A y \in S : x <= y

Conv_in_list_noChain(s) == <<s.in_features>> \o Repeat(32, s.depth)

\* lines 426 and 645
Conv_in_list(s) == <<s.in_features>> \o Prefix(s.num_cells, s.depth)

\* lines 427 and 646
Conv_out_list(s) == s.num_cells \o <<s.out_features>>

\* lines 434 and 653, i counted from 0
Conv_bias(i, in_list, s) == (i < Len(in_list) - 1) \/ s.bias_last_layer

\* lines 435-457 and 654-676: the convolution of iteration i
Conv_layer(cls, i, _in, _out, s) ==
    LET conv == IF cls = "ConvNet" THEN "Conv2d" ELSE "Conv3d"
        lazyconv == IF cls = "ConvNet" THEN "LazyConv2d" ELSE "LazyConv3d"
        l == IF _in # None
             THEN Layer(conv, _in, _out, Conv_bias(i, Conv_in_list(s), s),
                        FALSE)
             ELSE Layer(lazyconv, 0, _out, Conv_bias(i, Conv_in_list(s), s),
                        TRUE)
    IN [l EXCEPT !.kernel_size = s.kernel_sizes[i + 1],
                 !.stride = s.strides[i + 1],
                 !.padding = s.paddings[i + 1]]

\* lines 459-467 and 678-686: what follows every convolution
Conv_post(s) ==
    <<Module("activation")>>
    \o (IF s.norm_class THEN <<Module("norm")>> ELSE <<>>)

\* lines 469-477 and 688-696: what follows the last convolution block
Conv_tail(cls, s) ==
    (IF s.aggregator_class THEN <<Module("aggregator")>> ELSE <<>>)
    \o (IF s.squeeze_output THEN <<Module("squeeze")>> ELSE <<>>)

RECURSIVE Conv_loop(_, _, _, _)
\* lines 431-467 and 650-686: iterations i, i+1, ... of the loop over
\* zip(in_features, out_features, kernel_sizes, strides, paddings)
Conv_loop(cls, i, s, acc) ==
    LET ins == Conv_in_list(s)
        outs == Conv_out_list(s)
        n == Min({Len(ins), Len(outs), Len(s.kernel_sizes), Len(s.strides),
                  Len(s.paddings)})
    IN IF i >= n
       THEN acc
       ELSE Conv_loop(cls, i + 1, s,
                      acc \o <<Conv_layer(cls, i, ins[i + 1], outs[i + 1], s)>>
                          \o Conv_post(s))

\* lines 424-478 and 643-697
Conv_make_net(cls, s) == Conv_loop(cls, 0, s, <<>>) \o Conv_tail(cls, s)

\* lines 374-422 (ConvNet) and 595-641 (Conv3dNet): the outcome of cls(**a)
Conv_init(cls, a) ==
    LET num_cells == Conv_num_cells_default(cls, a.depth, a.num_cells)
        s1 == [NoSelf EXCEPT
                 !.in_features = a.in_features,
                 !.norm_class = a.norm_class,
                 !.bias_last_layer = a.bias_last_layer,
                 !.aggregator_class = a.aggregator_class,
                 !.squeeze_output = a.squeeze_output]
        found == _find_depth(a.depth, <<num_cells, a.kernel_sizes,
                                        a.strides, a.paddings>>)
    IN IF found.raised # "none"
       THEN Raise(found.raised, s1, <<>>)
       ELSE
       LET depth == found.depth
           s2 == [s1 EXCEPT !.depth = depth]
       IN IF Conv_null_depth(depth)
          THEN Raise("ValueError", s2, <<>>)
          ELSE
          LET set == Conv_set_fields(1, cls, s2, depth,
                                     <<num_cells, a.kernel_sizes,
                                       a.strides, a.paddings>>)
              s3 == set.self
          IN IF set.raised # "none"
             THEN Raise(set.raised, s3, <<>>)
             ELSE IF s3.num_cells = <<>>
             THEN Raise("IndexError", s3, <<>>)
             ELSE
             LET s4 == [s3 EXCEPT
                          !.out_features = s3.num_cells[Len(s3.num_cells)],
                          !.depth = Len(s3.kernel_sizes)]
             IN Raise("none", s4, Conv_make_net(cls, s4))

(* ------------------------ arguments ------------------------------------ *)

Widths == {4, 5}
Depths == {None} \cup ((0 - 1)..MaxDepth)
LayerClasses == {"Linear", "NoisyLinear", "Bilinear"}

NumCellsArgs ==
    {NoneArg} \cup {IntArg(w) : w \in Widths}
              \cup {SeqArg(q) : q \in SeqsUpTo(Widths, MaxLen)}

\* kernel_sizes, strides, paddings: a scalar or a per-layer sequence
PerLayerArgs(v) == {IntArg(v)} \cup {SeqArg(q) : q \in SeqsUpTo({v}, MaxLen)}

OutFeaturesArgs == {NoneArg, IntArg(6), SeqArg(<<2, 4>>)}

\* the arguments of a call, every argument the class does not take at
\* its default
NoArgs ==
    [cls |-> "none", in_features |-> None, out_features |-> NoneArg,
     depth |-> None, num_cells |-> NoneArg,
     kernel_sizes |-> IntArg(3), strides |-> IntArg(1),
     paddings |-> IntArg(0),
     norm_class |-> FALSE, dropout |-> FALSE, bias_last_layer |-> TRUE,
     single_bias_last_layer |-> FALSE, layer_class |-> "Linear",
     activate_last_layer |-> FALSE, aggregator_class |-> TRUE,
     squeeze_output |-> FALSE]

(* ------------------------- actions ------------------------------------- *)

Init ==
    /\ pc = "idle"
    /\ args = NoArgs
    /\ self = NoSelf
    /\ layers = <<>>
    /\ raised = "none"
    /\ inputs = <<>>
    /\ fed = NoTensor
    /\ ret = NoTensor
    /\ params = <<>>
    /\ scale = 0
    /\ comp = NoComp
    /\ res = NoRes
    /\ td = EmptyDict

Return(a, r) ==
    /\ args' = a
    /\ self' = r.self
    /\ layers' = r.layers
    /\ raised' = r.raised
    /\ pc' = IF r.raised = "none" THEN "built" ELSE "raised"
    /\ UNCHANGED <<fwdvars, parvars, compvars>>

\* MLP(in_features, out_features, depth, num_cells, ...)
ConstructMLP ==
    /\ pc = "idle"
    /\ \E inf \in {None, 3}, outf \in OutFeaturesArgs, d \in Depths,
          nc \in NumCellsArgs, lc \in LayerClasses,
          norm \in BOOLEAN, drop \in BOOLEAN, bll \in BOOLEAN,
          sbll \in BOOLEAN, all \in BOOLEAN :
         LET a == [NoArgs EXCEPT
                     !.cls = "MLP", !.in_features = inf,
                     !.out_features = outf, !.depth = d, !.num_cells = nc,
                     !.layer_class = lc, !.norm_class = norm,
                     !.dropout = drop, !.bias_last_layer = bll,
                     !.single_bias_last_layer = sbll,
                     !.activate_last_layer = all]
         IN Return(a, MLP_init(a))

\* ConvNet(...) and Conv3dNet(...) take the same arguments
ConstructConv(cls) ==
    /\ pc = "idle"
    /\ \E inf \in {None, 3}, d \in Depths, nc \in NumCellsArgs,
          ks \in PerLayerArgs(3), st \in PerLayerArgs(1),
          pd \in PerLayerArgs(0),
          norm \in BOOLEAN, bll \in BOOLEAN, agg \in BOOLEAN,
          sq \in BOOLEAN :
         LET a == [NoArgs EXCEPT
                     !.cls = cls, !.in_features = inf, !.depth = d,
                     !.num_cells = nc, !.kernel_sizes = ks, !.strides = st,
                     !.paddings = pd, !.norm_class = norm,
                     !.bias_last_layer = bll, !.aggregator_class = agg,
                     !.squeeze_output = sq]
         IN Return(a, Conv_init(cls, a))

ConstructConvNet == ConstructConv("ConvNet")

ConstructConv3dNet == ConstructConv("Conv3dNet")

Next == ConstructMLP \/ ConstructConvNet \/ ConstructConv3dNet

Spec == Init /\ [][Next]_vars

(* --------------------- forward of the stack ---------------------------- *)

\* number of trailing dimensions a network works on: features for an MLP,
\* channel + spatial axes for the convolutional ones (lines 481 and 701)
TrailingDims(cls) ==
    IF cls = "ConvNet" THEN 3 ELSE IF cls = "Conv3dNet" THEN 4 ELSE 1

\* nn.Linear / nn.LazyLinear on a tensor of shape sh: the last dimension
\* must be the input width (any width for a lazy layer)
Linear_shape(l, sh) ==
    IF Len(sh) < 1 \/ (~l.lazy /\ sh[Len(sh)] # l.in)
    THEN [raised |-> "RuntimeError", shape |-> sh]
    ELSE [raised |-> "none", shape |-> DropLast(sh, 1) \o <<l.out>>]

\* size of a spatial axis after a convolution
Conv_out_size(d, l) == ((d + 2 * l.padding - l.kernel_size) \div l.stride) + 1

\* nn.Conv2d / nn.Conv3d (and lazy variants) on a tensor of shape sh, n
\* being the number of trailing dimensions: the input is unbatched (rank
\* n) or has one batch dimension (rank n + 1)
Conv_shape(l, sh, n) ==
    IF Len(sh) \notin {n, n + 1}
    THEN [raised |-> "RuntimeError", shape |-> sh]
    ELSE
    LET lead == DropLast(sh, n)
        tr == TakeLast(sh, n)
        sp == [i \in 1..(n - 1) |-> Conv_out_size(tr[i + 1], l)]
    IN IF (~l.lazy /\ tr[1] # l.in) \/ l.stride < 1
          \/ \E i \in 1..(n - 1) : sp[i] < 1
       THEN [raised |-> "RuntimeError", shape |-> sh]
       ELSE [raised |-> "none", shape |-> lead \o <<l.out>> \o sp]

\* torchrl.modules.models.utils.SquashDims(ndims_in = n): the last n
\* dimensions are flattened into one
SquashDims_shape(sh, n) ==
    IF Len(sh) < n
    THEN [raised |-> "RuntimeError", shape |-> sh]
    ELSE [raised |-> "none",
          shape |-> DropLast(sh, n) \o <<prod(TakeLast(sh, n))>>]

RECURSIVE SqueezeLayer_shape(_, _)
\* torchrl.modules.models.utils.SqueezeLayer(dims = (-k, ..., -1)), line
\* 696, Squeeze2dLayer (line 477) being k = 2: the dimensions -k, ..., -1
\* are squeezed one after the other and each must be a singleton
SqueezeLayer_shape(sh, k) ==
    IF k = 0
    THEN [raised |-> "none", shape |-> sh]
    ELSE IF Len(sh) < k
    THEN [raised |-> "IndexError", shape |-> sh]
    ELSE IF sh[Len(sh) - k + 1] # 1
    THEN [raised |-> "RuntimeError", shape |-> sh]
    ELSE SqueezeLayer_shape(SubSeq(sh, 1, Len(sh) - k)
                            \o SubSeq(sh, Len(sh) - k + 2, Len(sh)), k - 1)

\* one module of the stack applied to a tensor of shape sh
Module_shape(cls, m, sh) ==
    IF m.kind = "layer"
    THEN IF cls = "MLP" THEN Linear_shape(m, sh)
         ELSE Conv_shape(m, sh, TrailingDims(cls))
    ELSE IF m.kind = "aggregator"
    THEN SquashDims_shape(sh, TrailingDims(cls))
    ELSE IF m.kind = "squeeze"
    THEN SqueezeLayer_shape(sh, TrailingDims(cls) - 1)
    ELSE [raised |-> "none", shape |-> sh]

RECURSIVE Sequential_shape(_, _, _, _)
\* nn.Sequential.forward (lines 267, 484, 708): the modules from position
\* p on applied in order; done counts the modules evaluated
Sequential_shape(cls, ls, p, sh) ==
    IF p > Len(ls)
    THEN [raised |-> "none", shape |-> sh, done |-> p - 1]
    ELSE LET r == Module_shape(cls, ls[p], sh)
         IN IF r.raised # "none"
            THEN [raised |-> r.raised, shape |-> sh, done |-> p - 1]
            ELSE Sequential_shape(cls, ls, p + 1, r.shape)

\* the stack applied to tensor x: the result is the stack's value on the
\* content it was given
Sequential_forward(cls, ls, x) ==
    LET r == Sequential_shape(cls, ls, 1, x.shape)
    IN [raised |-> r.raised, done |-> r.done,
        out |-> IF r.raised = "none"
                THEN Tensor(r.shape, x.data, cls)
                ELSE NoTensor]

\* a lazy layer becomes a layer of its regular class once evaluated
cls_to_become(c) ==
    IF c = "LazyLinear" THEN "Linear"
    ELSE IF c = "NoisyLazyLinear" THEN "NoisyLinear"
    ELSE IF c = "LazyConv2d" THEN "Conv2d"
    ELSE IF c = "LazyConv3d" THEN "Conv3d"
    ELSE c

\* a lazy first layer takes its input width from the first tensor it is
\* evaluated on
Materialize(cls, ls, x, done) ==
    IF done >= 1 /\ ls # <<>> /\ ls[1].lazy
    THEN [ls EXCEPT ![1].lazy = FALSE,
                    ![1].cls = cls_to_become(ls[1].cls),
                    ![1].in = TakeLast(x.shape, TrailingDims(cls))[1]]
    ELSE ls

(* ------------------------- MLP.forward --------------------------------- *)

RECURSIVE SumSeq(_)
SumSeq(q) == IF q = <<>> THEN 0 ELSE Head(q) + SumSeq(Tail(q))

RECURSIVE Flatten(_)
\* the concatenation of a sequence of sequences
Flatten(qs) == IF qs = <<>> THEN <<>> ELSE Head(qs) \o Flatten(Tail(qs))

\* torch.cat(xs, -1): all tensors have the same rank >= 1 and the same
\* leading dimensions
cat_last(xs) ==
    IF \/ \E i \in 1..Len(xs) : Len(xs[i].shape) < 1
       \/ \E i, j \in 1..Len(xs) :
              DropLast(xs[i].shape, 1) # DropLast(xs[j].shape, 1)
    THEN [raised |-> "RuntimeError", out |-> NoTensor]
    ELSE [raised |-> "none",
          out |-> Tensor(DropLast(xs[1].shape, 1)
                           \o <<SumSeq([i \in 1..Len(xs) |->
                                          xs[i].shape[Len(xs[i].shape)]])>>,
                         Flatten([i \in 1..Len(xs) |-> xs[i].data]),
                         "input")]

MLP_gather_reversed(xs) ==
    IF Len(xs) > 1 THEN cat_last([i \in 1..Len(xs) |-> xs[Len(xs) + 1 - i]])
    ELSE [raised |-> "none", out |-> xs[1]]

\* lines 264-265: several inputs are concatenated along the last axis, a
\* single input is taken as it is
MLP_gather(xs) ==
    IF Len(xs) > 1 THEN cat_last(xs) ELSE [raised |-> "none", out |-> xs[1]]

MLP_view_flat(out_features, y) == y

\* lines 268-269: a tuple out_features reshapes the last dimension
MLP_view(out_features, y) ==
    IF ~isNumber(out_features)
    THEN Tensor(DropLast(y.shape, 1) \o out_features.s, y.data, y.by)
    ELSE y

\* lines 263-270: the outcome of mlp(*xs) for a built MLP
MLP_forward(a, ls, xs) ==
    IF xs = <<>>
    THEN [raised |-> "TypeError", fed |-> NoTensor, out |-> NoTensor,
          layers |-> ls]
    ELSE
    LET g == MLP_gather(xs)
    IN IF g.raised # "none"
       THEN [raised |-> g.raised, fed |-> NoTensor, out |-> NoTensor,
             layers |-> ls]
       ELSE
       LET r == Sequential_forward("MLP", ls, g.out)
           ls1 == Materialize("MLP", ls, g.out, r.done)
       IN IF r.raised # "none"
          THEN [raised |-> r.raised, fed |-> g.out, out |-> NoTensor,
                layers |-> ls1]
          ELSE [raised |-> "none", fed |-> g.out,
                out |-> MLP_view(a.out_features, r.out), layers |-> ls1]

(* ------------------ ConvNet.forward, Conv3dNet.forward ----------------- *)

Conv_too_few_dims_noCheck(cls, sh) == FALSE

\* lines 481 and 700-705: the unpacking *batch, C, (D,) L, W = inputs.shape
\* raises ValueError on a shape with too few dimensions
Conv_too_few_dims(cls, sh) == Len(sh) < TrailingDims(cls)

\* lines 481 and 701: batch
Conv_batch(cls, sh) ==
    IF Len(sh) < TrailingDims(cls) THEN <<>>
    ELSE DropLast(sh, TrailingDims(cls))

\* lines 482-483 and 706-707: inputs.flatten(0, len(batch) - 1)
Conv_flatten(batch, x) ==
    IF Len(batch) > 1
    THEN Tensor(<<prod(batch)>>
                  \o SubSeq(x.shape, Len(batch) + 1, Len(x.shape)),
                x.data, x.by)
    ELSE x

Conv_unflatten_never(batch, y) == [raised |-> "none", out |-> y]

\* lines 485-486 and 709-710: out.unflatten(0, batch)
Conv_unflatten(batch, y) ==
    IF Len(batch) > 1
    THEN IF Len(y.shape) < 1 \/ y.shape[1] # prod(batch)
         THEN [raised |-> "RuntimeError", out |-> NoTensor]
         ELSE [raised |-> "none",
               out |-> Tensor(batch \o Tail(y.shape), y.data, y.by)]
    ELSE [raised |-> "none", out |-> y]

\* lines 480-487 and 699-711: the outcome of net(x) for a built network
Conv_forward(cls, ls, x) ==
    IF Conv_too_few_dims(cls, x.shape)
    THEN [raised |-> "ValueError", fed |-> NoTensor, out |-> NoTensor,
          layers |-> ls]
    ELSE
    LET batch == Conv_batch(cls, x.shape)
        xin == Conv_flatten(batch, x)
        r == Sequential_forward(cls, ls, xin)
        ls1 == Materialize(cls, ls, xin, r.done)
    IN IF r.raised # "none"
       THEN [raised |-> r.raised, fed |-> xin, out |-> NoTensor,
             layers |-> ls1]
       ELSE LET u == Conv_unflatten(batch, r.out)
            IN [raised |-> u.raised, fed |-> xin, out |-> u.out,
                layers |-> ls1]

(* ---------------- forward calls on a constructed network --------------- *)

\* most leading (batch) dimensions of an input
MaxBatchDims == 3
\* most tensors given to one MLP call
MaxInputs == 3

\* the networks the forward calls are made on
FwdMLPArgs ==
    {[NoArgs EXCEPT !.cls = "MLP", !.in_features = inf,
                    !.out_features = outf, !.num_cells = nc,
                    !.activate_last_layer = all] :
       inf \in {None, 3}, outf \in {IntArg(6), SeqArg(<<2, 4>>)},
       nc \in {SeqArg(<<>>), SeqArg(<<4>>)}, all \in BOOLEAN}

FwdConvArgs ==
    {[NoArgs EXCEPT !.cls = cls, !.in_features = inf, !.num_cells = nc,
                    !.norm_class = norm, !.aggregator_class = agg,
                    !.squeeze_output = sq] :
       cls \in {"ConvNet", "Conv3dNet"}, inf \in {None, 3},
       nc \in {SeqArg(<<1>>), SeqArg(<<4>>), SeqArg(<<4, 1>>)},
       norm \in BOOLEAN, agg \in BOOLEAN, sq \in BOOLEAN}

\* a network right after its construction
InitFwd ==
    /\ \E a \in FwdMLPArgs \cup FwdConvArgs :
         LET r == IF a.cls = "MLP" THEN MLP_init(a) ELSE Conv_init(a.cls, a)
         IN /\ args = a
            /\ self = r.self
            /\ layers = r.layers
            /\ raised = r.raised
            /\ pc = IF r.raised = "none" THEN "built" ELSE "raised"
    /\ inputs = <<>>
    /\ fed = NoTensor
    /\ ret = NoTensor
    /\ params = <<>>
    /\ scale = 0
    /\ comp = NoComp
    /\ res = NoRes
    /\ td = EmptyDict

ReturnForward(xs, r) ==
    /\ inputs' = xs
    /\ fed' = r.fed
    /\ ret' = r.out
    /\ layers' = r.layers
    /\ raised' = r.raised
    /\ pc' = IF r.raised = "none" THEN "returned" ELSE "failed"
    /\ UNCHANGED <<args, self, parvars, compvars>>

BatchShapes == SeqsUpTo({1, 2}, MaxBatchDims)

\* mlp(x1, ..., xn)
ForwardMLP ==
    /\ pc = "built" /\ args.cls = "MLP"
    /\ \E n \in 1..MaxInputs :
       \E shs \in [1..n -> {<<>>, <<1>>, <<3>>, <<2, 1>>, <<2, 2>>,
                            <<1, 2>>, <<2, 1, 2>>}] :
         LET xs == [i \in 1..n |-> Tensor(shs[i], <<i>>, "input")]
         IN ReturnForward(xs, MLP_forward(args, layers, xs))

\* net(x) for ConvNet and Conv3dNet
ForwardConv(cls) ==
    /\ pc = "built" /\ args.cls = cls
    /\ \E sh \in SeqsUpTo({3}, TrailingDims(cls) - 1)
                 \cup {b \o <<c>> \o Repeat(s, TrailingDims(cls) - 1) :
                         b \in BatchShapes, c \in {2, 3}, s \in {3, 5}} :
         LET x == Tensor(sh, <<1>>, "input")
         IN ReturnForward(<<x>>, Conv_forward(cls, layers, x))

ForwardConvNet == ForwardConv("ConvNet")

ForwardConv3dNet == ForwardConv("Conv3dNet")

NextFwd == ForwardMLP \/ ForwardConvNet \/ ForwardConv3dNet

SpecFwd == InitFwd /\ [][NextFwd]_vars

(* ------------------------- parameters ---------------------------------- *)

\* entries of a weight and of a bias that are followed
WeightEntries == 2
BiasEntries == 1

\* torch.rand_like draws from [0, 1): the draws are the multiples of
\* 1 / RandDen
RandDen == 4
Rand == 0..(RandDen - 1)

\* Parameter values are in units of 1e-5: the scales 6e-4 and 6e-3
scale_6e_4 == 60
scale_6e_3 == 600

\* the parameters of a module without parameters
NoParam == [uninitialized |-> FALSE, weight |-> <<>>, bias |-> <<>>]

\* the parameters of the module at position p as its constructor leaves
\* them: drawn by reset_parameters (a value per position and entry), or
\* uninitialized and without data for a lazy layer; no bias data when the
\* layer has no bias
Layer_params(l, p) ==
    IF l.kind # "layer" THEN NoParam
    ELSE [uninitialized |-> l.lazy,
          weight |-> IF l.lazy THEN <<>>
                     ELSE [j \in 1..WeightEntries |-> 1000 * p + j],
          bias |-> IF l.lazy \/ ~l.bias THEN <<>>
                   ELSE [j \in 1..BiasEntries |->
                           1000 * p + WeightEntries + j]]

InitialParams(ls) == [p \in 1..Len(ls) |-> Layer_params(ls[p], p)]

\* a network: its modules and their parameters
Net(ls) == [layers |-> ls, params |-> InitialParams(ls)]
NoNet == [layers |-> <<>>, params |-> <<>>]

\* isinstance(m, (nn.Linear, nn.Conv2d)): the lazy and noisy classes are
\* subclasses
LinearOrConv2d(m) ==
    /\ m.kind = "layer"
    /\ m.cls \in {"Linear", "LazyLinear", "NoisyLinear", "NoisyLazyLinear",
                  "Conv2d", "LazyConv2d"}

(* ------------------------- ddpg_init_last_layer ------------------------ *)

Max(S) == CHOOSE x \in S : \A y \in S : y <= x

ddpg_last_layer_first(ls) ==
    LET found == {p \in 1..Len(ls) : LinearOrConv2d(ls[p])}
    IN IF found = {} THEN 0 ELSE Min(found)

\* lines 936-940: the position of the first nn.Linear / nn.Conv2d met in
\* reversed(module), 0 when there is none
ddpg_last_layer(ls) ==
    LET found == {p \in 1..Len(ls) : LinearOrConv2d(ls[p])}
    IN IF found = {} THEN 0 ELSE Max(found)

\* lines 942-943 and 946-947: data.copy_(torch.rand_like(data) * scale -
\* scale / 2), r being the draws of rand_like; the data keeps its size
ddpg_rand(dst, r, s) ==
    [j \in 1..Len(dst) |-> (r[j] * s) \div RandDen - s \div 2]

\* lines 945-948: the bias is redrawn when the layer has one
ddpg_bias(l, b, r, s) == IF l.bias THEN ddpg_rand(b, r, s) ELSE b

\* lines 925-948: ddpg_init_last_layer(module, scale) with the draws rw
\* and rb of rand_like
ddpg_init_last_layer(net, s, rw, rb) ==
    LET p == ddpg_last_layer(net.layers)
    IN IF p = 0
       THEN [raised |-> "RuntimeError", net |-> net]
       ELSE [raised |-> "none",
             net |-> [net EXCEPT
                        !.params[p].weight =
                            ddpg_rand(net.params[p].weight, rw, s),
                        !.params[p].bias =
                            ddpg_bias(net.layers[p], net.params[p].bias,
                                      rb, s)]]

\* the networks ddpg_init_last_layer is called on
LastMLPArgs ==
    {[NoArgs EXCEPT !.cls = "MLP", !.in_features = inf,
                    !.out_features = IntArg(6), !.num_cells = nc,
                    !.bias_last_layer = bll, !.norm_class = norm,
                    !.dropout = drop, !.activate_last_layer = all] :
       inf \in {None, 3}, nc \in {SeqArg(<<>>), SeqArg(<<4>>)},
       bll \in BOOLEAN, norm \in BOOLEAN, drop \in BOOLEAN,
       all \in BOOLEAN}

LastConvArgs ==
    {[NoArgs EXCEPT !.cls = cls, !.in_features = inf, !.num_cells = nc,
                    !.bias_last_layer = bll, !.norm_class = norm,
                    !.aggregator_class = agg] :
       cls \in {"ConvNet", "Conv3dNet"}, inf \in {None, 3},
       nc \in {SeqArg(<<4>>), SeqArg(<<4, 5>>)},
       bll \in BOOLEAN, norm \in BOOLEAN, agg \in BOOLEAN}

\* a network right after its construction, with its parameters
InitLast ==
    /\ \E a \in LastMLPArgs \cup LastConvArgs :
         LET r == IF a.cls = "MLP" THEN MLP_init(a) ELSE Conv_init(a.cls, a)
         IN /\ args = a
            /\ self = r.self
            /\ layers = r.layers
            /\ raised = r.raised
            /\ pc = IF r.raised = "none" THEN "built" ELSE "raised"
            /\ params = InitialParams(r.layers)
    /\ inputs = <<>>
    /\ fed = NoTensor
    /\ ret = NoTensor
    /\ scale = 0
    /\ comp = NoComp
    /\ res = NoRes
    /\ td = EmptyDict

\* ddpg_init_last_layer(net, scale)
DdpgInitLastLayer ==
    /\ pc = "built"
    /\ \E s \in {scale_6e_4, scale_6e_3}, rw \in [1..WeightEntries -> Rand],
          rb \in [1..BiasEntries -> Rand] :
         LET r == ddpg_init_last_layer(
                      [layers |-> layers, params |-> params], s, rw, rb)
         IN /\ params' = r.net.params
            /\ scale' = s
            /\ raised' = r.raised
            /\ pc' = IF r.raised = "none" THEN "reinit" ELSE "failed"
    /\ UNCHANGED <<args, self, layers, fwdvars, compvars>>

NextLast == DdpgInitLastLayer

SpecLast == InitLast /\ [][NextLast]_vars

(* ------------------------- composite networks -------------------------- *)

\* the keyword parameters of MLP.__init__ (lines 149-166), of
\* ConvNet.__init__ (lines 356-373) and of nn.LSTM
MLP_parameters ==
    {"in_features", "out_features", "depth", "num_cells",
     "activation_class", "activation_kwargs", "norm_class", "norm_kwargs",
     "dropout", "bias_last_layer", "single_bias_last_layer", "layer_class",
     "layer_kwargs", "activate_last_layer", "device"}

Conv_parameters ==
    {"in_features", "depth", "num_cells", "kernel_sizes", "strides",
     "paddings", "activation_class", "activation_kwargs", "norm_class",
     "norm_kwargs", "bias_last_layer", "aggregator_class",
     "aggregator_kwargs", "squeeze_output", "device"}

LSTM_parameters ==
    {"input_size", "hidden_size", "num_layers", "bias", "batch_first",
     "dropout", "bidirectional", "proj_size", "device", "dtype"}

\* f(k1=v1, ..., **kw): a keyword given twice or one f does not have is
\* a TypeError, and f is not entered
Call_kwargs(explicit, kw, parameters) ==
    IF \/ DOMAIN explicit \cap DOMAIN kw # {}
       \/ ~(DOMAIN kw \subseteq parameters)
    THEN [raised |-> "TypeError", kwargs |-> EmptyDict]
    ELSE [raised |-> "none", kwargs |-> Update(explicit, kw)]

\* the arguments an MLP / ConvNet constructor binds from its keywords
ArgsOf(cls, kw) ==
    [cls |-> cls,
     in_features |-> Get(kw, "in_features", NoArgs.in_features),
     out_features |-> Get(kw, "out_features", NoArgs.out_features),
     depth |-> Get(kw, "depth", NoArgs.depth),
     num_cells |-> Get(kw, "num_cells", NoArgs.num_cells),
     kernel_sizes |-> Get(kw, "kernel_sizes", NoArgs.kernel_sizes),
     strides |-> Get(kw, "strides", NoArgs.strides),
     paddings |-> Get(kw, "paddings", NoArgs.paddings),
     norm_class |-> Get(kw, "norm_class", "None") # "None",
     dropout |-> Get(kw, "dropout", NoArgs.dropout),
     bias_last_layer |-> Get(kw, "bias_last_layer", NoArgs.bias_last_layer),
     single_bias_last_layer |-> Get(kw, "single_bias_last_layer",
                                    NoArgs.single_bias_last_layer),
     layer_class |-> Get(kw, "layer_class", NoArgs.layer_class),
     activate_last_layer |-> Get(kw, "activate_last_layer",
                                 NoArgs.activate_last_layer),
     aggregator_class |-> Get(kw, "aggregator_class", "SquashDims") # "None",
     squeeze_output |-> Get(kw, "squeeze_output", NoArgs.squeeze_output)]

\* a constructor call that was not made
NoCall == [called |-> FALSE, kwargs |-> EmptyDict]

\* cls(k1=v1, ..., **kw) for MLP and ConvNet: the call, and the network
NewNet(cls, explicit, kw) ==
    LET c == Call_kwargs(explicit, kw,
                         IF cls = "MLP" THEN MLP_parameters
                         ELSE Conv_parameters)
    IN IF c.raised # "none"
       THEN [reached |-> TRUE, raised |-> c.raised, call |-> NoCall,
             net |-> NoNet]
       ELSE With(ArgsOf(cls, c.kwargs), LAMBDA a :
            With(IF cls = "MLP" THEN MLP_init(a) ELSE Conv_init(cls, a),
                 LAMBDA r :
            [reached |-> TRUE, raised |-> r.raised,
             call |-> [called |-> TRUE, kwargs |-> c.kwargs],
             net |-> IF r.raised = "none" THEN Net(r.layers) ELSE NoNet]))

\* nn.LSTM(device=device, **kw): input_size and hidden_size are required
NewLSTM(explicit, kw) ==
    LET c == Call_kwargs(explicit, kw, LSTM_parameters)
    IN IF c.raised # "none"
       THEN [reached |-> TRUE, raised |-> c.raised, call |-> NoCall,
             net |-> NoNet]
       ELSE IF ~({"input_size", "hidden_size"} \subseteq DOMAIN kw)
       THEN [reached |-> TRUE, raised |-> "TypeError",
             call |-> [called |-> TRUE, kwargs |-> c.kwargs], net |-> NoNet]
       ELSE [reached |-> TRUE, raised |-> "none",
             call |-> [called |-> TRUE, kwargs |-> c.kwargs],
             net |-> Net(<<Module("lstm")>>)]

\* a statement after one that raised is not reached
Then(before, build) ==
    IF before.raised # "none"
    THEN [reached |-> FALSE, raised |-> before.raised, call |-> NoCall,
          net |-> NoNet]
    ELSE build

\* bias.data.zero_(): the data keeps its size
zero_(q) == [j \in 1..Len(q) |-> 0]

\* lines 784-788 and 858-862 on one sub-network: the bias of every
\* nn.Linear / nn.Conv2d that has one is zeroed in place
Dueling_zero_bias(net) ==
    [net EXCEPT !.params =
        [p \in 1..Len(net.layers) |->
           IF LinearOrConv2d(net.layers[p]) /\ net.layers[p].bias
           THEN [net.params[p] EXCEPT !.bias = zero_(net.params[p].bias)]
           ELSE net.params[p]]]

\* lines 759-764 and 838-842: the defaults of the feature network
DuelingMlpDQNet_mlp_kwargs_feature ==
    [num_cells |-> SeqArg(<<256, 256>>), out_features |-> IntArg(256),
     activation_class |-> "ELU", activate_last_layer |-> TRUE]

DuelingCnnDQNet_cnn_kwargs ==
    [num_cells |-> SeqArg(<<32, 64, 64>>), strides |-> SeqArg(<<4, 2, 1>>),
     kernel_sizes |-> SeqArg(<<8, 4, 3>>)]

\* lines 768-773 and 846-851: the defaults of the two output networks
Dueling_mlp_kwargs_output ==
    [depth |-> 1, activation_class |-> "ELU", num_cells |-> IntArg(512),
     bias_last_layer |-> TRUE]

\* lines 748-788 (DuelingMlpDQNet) and 827-862 (DuelingCnnDQNet): a is
\* the arguments, feature and output the two caller dictionaries
Dueling_init(cls, a) ==
    LET fcls == IF cls = "DuelingMlpDQNet" THEN "MLP" ELSE "ConvNet"
        fdef == IF cls = "DuelingMlpDQNet"
                THEN DuelingMlpDQNet_mlp_kwargs_feature
                ELSE DuelingCnnDQNet_cnn_kwargs
        _feature == Update(fdef, a.feature)
        _output == Update(Dueling_mlp_kwargs_output, a.output)
    IN With(NewNet(fcls, [device |-> a.device], _feature), LAMBDA features :
       With(Then(features,
                 NewNet("MLP", [out_features |-> IntArg(a.out_features),
                                device |-> a.device], _output)),
            LAMBDA advantage :
       With(Then(advantage,
                 NewNet("MLP",
                        [out_features |-> IntArg(a.out_features_value),
                         device |-> a.device], _output)),
            LAMBDA value :
       With(value.raised = "none", LAMBDA done :
       [cls |-> cls, raised |-> value.raised, scale |-> 0,
        given |-> [features |-> a.feature, advantage |-> a.output,
                   value |-> a.output],
        kwargs |-> [features |-> a.feature, advantage |-> a.output,
                    value |-> a.output],
        defaults |-> [features |-> fdef,
                      advantage |-> Dueling_mlp_kwargs_output,
                      value |-> Dueling_mlp_kwargs_output],
        reached |-> [features |-> features.reached,
                     advantage |-> advantage.reached,
                     value |-> value.reached],
        calls |-> [features |-> features.call, advantage |-> advantage.call,
                   value |-> value.call],
        nets |-> [features |-> IF done THEN Dueling_zero_bias(features.net)
                               ELSE features.net,
                  advantage |-> IF done THEN Dueling_zero_bias(advantage.net)
                                ELSE advantage.net,
                  value |-> IF done THEN Dueling_zero_bias(value.net)
                            ELSE value.net]]))))

\* lines 999-1016 and 1129-1146: the defaults of the convolutional network
\* of DdpgCnnActor and of DdpgCnnQNet
Ddpg_conv_net_default_kwargs(cls, use_avg_pooling) ==
    [in_features |-> None,
     num_cells |-> IF cls = "DdpgCnnActor" THEN SeqArg(<<32, 64, 64>>)
                   ELSE SeqArg(<<32, 64, 128>>),
     kernel_sizes |-> SeqArg(<<8, 4, 3>>),
     strides |-> SeqArg(<<4, 2, 1>>),
     paddings |-> SeqArg(<<0, 0, 1>>),
     activation_class |-> "ELU",
     norm_class |-> "None",
     aggregator_class |-> IF ~use_avg_pooling THEN "SquashDims"
                          ELSE "AdaptiveAvgPool2d",
     aggregator_kwargs |-> IF ~use_avg_pooling THEN "ndims_in=3"
                           ELSE "output_size=(1, 1)",
     squeeze_output |-> use_avg_pooling]

\* lines 1019-1026 (DdpgCnnActor), 1067-1074 (DdpgMlpActor), 1149-1156
\* (DdpgCnnQNet) and 1220-1228 (mlp2 of DdpgMlpQNet): the defaults of the
\* network whose last layer is reinitialised
Ddpg_mlp_net_default_kwargs(cls, action_dim) ==
    IF cls = "DdpgCnnActor"
    THEN [in_features |-> None, out_features |-> IntArg(action_dim),
          depth |-> 2, num_cells |-> IntArg(200),
          activation_class |-> "ELU", bias_last_layer |-> TRUE]
    ELSE IF cls = "DdpgMlpActor"
    THEN [in_features |-> None, out_features |-> IntArg(action_dim),
          depth |-> 2, num_cells |-> SeqArg(<<400, 300>>),
          activation_class |-> "ELU", bias_last_layer |-> TRUE]
    ELSE IF cls = "DdpgCnnQNet"
    THEN [in_features |-> None, out_features |-> IntArg(1),
          depth |-> 2, num_cells |-> IntArg(200),
          activation_class |-> "ELU", bias_last_layer |-> TRUE]
    ELSE [in_features |-> None, out_features |-> IntArg(1),
          num_cells |-> SeqArg(<<300>>),
          activation_class |-> "ELU", bias_last_layer |-> TRUE]

\* lines 1206-1214: the defaults of mlp1 of DdpgMlpQNet
DdpgMlpQNet_mlp1_net_default_kwargs ==
    [in_features |-> None, out_features |-> IntArg(400), depth |-> 0,
     num_cells |-> SeqArg(<<>>), activation_class |-> "ELU",
     bias_last_layer |-> TRUE, activate_last_layer |-> TRUE]

Ddpg_scale_all_6e_4(cls) == scale_6e_4

\* lines 1029, 1078, 1159 and 1235: the scale each class passes to
\* ddpg_init_last_layer
Ddpg_scale(cls) ==
    IF cls = "DdpgCnnActor" THEN scale_6e_4
    ELSE IF cls = "DdpgMlpActor" THEN scale_6e_3
    ELSE IF cls = "DdpgCnnQNet" THEN scale_6e_4
    ELSE scale_6e_3

\* the outcome of ddpg_init_last_layer(net, ...) after the statements
\* that built net
Ddpg_last(cls, before, rw, rb) ==
    IF before.raised # "none"
    THEN [raised |-> before.raised, net |-> before.net]
    ELSE ddpg_init_last_layer(before.net, Ddpg_scale(cls), rw, rb)

\* lines 990-1029 (DdpgCnnActor) and 1121-1159 (DdpgCnnQNet): first is the
\* caller's conv_net_kwargs, second its mlp_net_kwargs
DdpgCnn_init(cls, a, rw, rb) ==
    LET cdef == Ddpg_conv_net_default_kwargs(cls, a.use_avg_pooling)
        mdef == Ddpg_mlp_net_default_kwargs(cls, a.action_dim)
    IN With(NewNet("ConvNet", [device |-> a.device], Update(cdef, a.first)),
            LAMBDA convnet :
       With(Then(convnet, NewNet("MLP", [device |-> a.device],
                                 Update(mdef, a.second))),
            LAMBDA mlp :
       With(Ddpg_last(cls, mlp, rw, rb), LAMBDA last :
       [cls |-> cls, raised |-> last.raised, scale |-> Ddpg_scale(cls),
        given |-> [convnet |-> a.first, mlp |-> a.second],
        kwargs |-> [convnet |-> a.first, mlp |-> a.second],
        defaults |-> [convnet |-> cdef, mlp |-> mdef],
        reached |-> [convnet |-> convnet.reached, mlp |-> mlp.reached],
        calls |-> [convnet |-> convnet.call, mlp |-> mlp.call],
        nets |-> [convnet |-> convnet.net, mlp |-> last.net]])))

\* lines 1060-1078: DdpgMlpActor, second being the caller's mlp_net_kwargs
DdpgMlpActor_init(a, rw, rb) ==
    LET mdef == Ddpg_mlp_net_default_kwargs("DdpgMlpActor", a.action_dim)
    IN With(NewNet("MLP", [device |-> a.device], Update(mdef, a.second)),
            LAMBDA mlp :
       With(Ddpg_last("DdpgMlpActor", mlp, rw, rb), LAMBDA last :
       [cls |-> "DdpgMlpActor", raised |-> last.raised,
        scale |-> Ddpg_scale("DdpgMlpActor"),
        given |-> [mlp |-> a.second],
        kwargs |-> [mlp |-> a.second],
        defaults |-> [mlp |-> mdef],
        reached |-> [mlp |-> mlp.reached],
        calls |-> [mlp |-> mlp.call],
        nets |-> [mlp |-> last.net]]))

\* lines 1199-1235: DdpgMlpQNet, first and second being the caller's
\* mlp_net_kwargs_net1 and mlp_net_kwargs_net2
DdpgMlpQNet_init(a, rw, rb) ==
    LET mdef == Ddpg_mlp_net_default_kwargs("DdpgMlpQNet", a.action_dim)
    IN With(NewNet("MLP", [device |-> a.device],
                   Update(DdpgMlpQNet_mlp1_net_default_kwargs, a.first)),
            LAMBDA mlp1 :
       With(Then(mlp1, NewNet("MLP", [device |-> a.device],
                              Update(mdef, a.second))),
            LAMBDA mlp2 :
       With(Ddpg_last("DdpgMlpQNet", mlp2, rw, rb), LAMBDA last :
       [cls |-> "DdpgMlpQNet", raised |-> last.raised,
        scale |-> Ddpg_scale("DdpgMlpQNet"),
        given |-> [mlp1 |-> a.first, mlp2 |-> a.second],
        kwargs |-> [mlp1 |-> a.first, mlp2 |-> a.second],
        defaults |-> [mlp1 |-> DdpgMlpQNet_mlp1_net_default_kwargs,
                      mlp2 |-> mdef],
        reached |-> [mlp1 |-> mlp1.reached, mlp2 |-> mlp2.reached],
        calls |-> [mlp1 |-> mlp1.call, mlp2 |-> mlp2.call],
        nets |-> [mlp1 |-> mlp1.net, mlp2 |-> last.net]])))

\* line 1287: lstm_kwargs.update({"batch_first": True}), on the caller's
\* dictionary
LSTMNet_update(lstm_kwargs) == Update(lstm_kwargs, [batch_first |-> TRUE])

\* lines 1275-1290: LSTMNet, first being the caller's lstm_kwargs and
\* second its mlp_kwargs
LSTMNet_init(a) ==
    LET updated == LSTMNet_update(a.first)
    IN With(NewNet("MLP", [device |-> a.device], a.second), LAMBDA mlp :
       With(Then(mlp, NewLSTM([device |-> a.device], updated)), LAMBDA lstm :
       With(Then(lstm,
                 [reached |-> TRUE, raised |-> "none",
                  call |-> [called |-> TRUE,
                            kwargs |-> [out_features |->
                                            IntArg(a.out_features),
                                        device |-> a.device]],
                  net |-> Net(<<Layer("LazyLinear", 0, a.out_features,
                                      TRUE, TRUE)>>)]),
            LAMBDA linear :
       [cls |-> "LSTMNet", raised |-> linear.raised, scale |-> 0,
        given |-> [mlp |-> a.second, lstm |-> a.first],
        kwargs |-> [mlp |-> a.second, lstm |-> updated],
        defaults |-> [mlp |-> EmptyDict, lstm |-> EmptyDict],
        reached |-> [mlp |-> mlp.reached, lstm |-> lstm.reached,
                     linear |-> linear.reached],
        calls |-> [mlp |-> mlp.call, lstm |-> lstm.call,
                   linear |-> linear.call],
        nets |-> [mlp |-> mlp.net, lstm |-> lstm.net,
                  linear |-> linear.net]])))

(* ---------------- construction of a composite network ------------------ *)

\* restriction of a dictionary to some of its keys
Restrict(d, K) == [k \in K |-> d[k]]

\* the dictionaries a caller passes: any part of the full one
Dicts(full) == {Restrict(full, K) : K \in SUBSET DOMAIN full}

CallerMLPFeature ==
    Dicts([in_features |-> 3, depth |-> 0, bias_last_layer |-> FALSE,
           device |-> "cuda"])

CallerMLPOutput ==
    Dicts([in_features |-> 3, depth |-> 0, bias_last_layer |-> FALSE,
           out_features |-> IntArg(5)])

CallerConv ==
    Dicts([in_features |-> 3, num_cells |-> SeqArg(<<4, 4, 4>>),
           strides |-> SeqArg(<<1>>), device |-> "cuda"])

CallerLSTM ==
    Dicts([input_size |-> 4, hidden_size |-> 5, batch_first |-> FALSE,
           device |-> "cuda"])

ReturnComposite(r) ==
    /\ comp' = r
    /\ scale' = r.scale
    /\ raised' = r.raised
    /\ pc' = IF r.raised = "none" THEN "built" ELSE "raised"
    /\ UNCHANGED <<args, self, layers, fwdvars, params, res, td>>

ConstructDueling(cls, features) ==
    /\ pc = "idle"
    /\ \E f \in features, o \in CallerMLPOutput :
         ReturnComposite(
             Dueling_init(cls, [out_features |-> 2, out_features_value |-> 1,
                                feature |-> f, output |-> o,
                                device |-> "None"]))

ConstructDuelingMlpDQNet == ConstructDueling("DuelingMlpDQNet", CallerMLPFeature)

ConstructDuelingCnnDQNet == ConstructDueling("DuelingCnnDQNet", CallerConv)

ConstructDdpgCnn(cls) ==
    /\ pc = "idle"
    /\ \E c \in CallerConv, m \in CallerMLPOutput, avg \in BOOLEAN,
          rw \in [1..WeightEntries -> Rand], rb \in [1..BiasEntries -> Rand] :
         ReturnComposite(
             DdpgCnn_init(cls, [action_dim |-> 2, first |-> c, second |-> m,
                                use_avg_pooling |-> avg, device |-> "None"],
                          rw, rb))

ConstructDdpgCnnActor == ConstructDdpgCnn("DdpgCnnActor")

ConstructDdpgCnnQNet == ConstructDdpgCnn("DdpgCnnQNet")

ConstructDdpgMlpActor ==
    /\ pc = "idle"
    /\ \E m \in CallerMLPOutput \cup CallerMLPFeature,
          rw \in [1..WeightEntries -> Rand], rb \in [1..BiasEntries -> Rand] :
         ReturnComposite(
             DdpgMlpActor_init([action_dim |-> 2, second |-> m,
                                device |-> "None"], rw, rb))

ConstructDdpgMlpQNet ==
    /\ pc = "idle"
    /\ \E m1 \in CallerMLPFeature, m2 \in CallerMLPOutput,
          rw \in [1..WeightEntries -> Rand], rb \in [1..BiasEntries -> Rand] :
         ReturnComposite(
             DdpgMlpQNet_init([action_dim |-> 2, first |-> m1, second |-> m2,
                               device |-> "None"], rw, rb))

ConstructLSTMNet ==
    /\ pc = "idle"
    /\ \E l \in CallerLSTM, m \in CallerMLPOutput \cup CallerMLPFeature :
         ReturnComposite(
             LSTMNet_init([out_features |-> 2, first |-> l, second |-> m,
                           device |-> "None"]))

NextComposite ==
    \/ ConstructDuelingMlpDQNet
    \/ ConstructDuelingCnnDQNet
    \/ ConstructDdpgCnnActor
    \/ ConstructDdpgMlpActor
    \/ ConstructDdpgCnnQNet
    \/ ConstructDdpgMlpQNet
    \/ ConstructLSTMNet

SpecComposite == Init /\ [][NextComposite]_vars

(* ------------------ forward of a dueling network ----------------------- *)

\* the numbers of rows (batch entries) of an input of a dueling network
Rows == {1, 2}

\* the parameters after a forward call that left the modules ls: a
\* parameter materialised by the call is drawn by reset_parameters
Materialize_params(ls, ps) ==
    [p \in 1..Len(ls) |->
       IF ps[p].uninitialized /\ ~ls[p].lazy
       THEN Layer_params(ls[p], p)
       ELSE ps[p]]

\* advantage.mean(dim=-1, keepdim=True) of a matrix of integers, as a
\* column of fractions num / den
mean_last_asSum(m) ==
    [den |-> 1, num |-> [b \in 1..Len(m) |-> SumSeq(m[b])]]

mean_last(m) ==
    [den |-> IF m = <<>> THEN 1 ELSE Len(m[1]),
     num |-> [b \in 1..Len(m) |-> SumSeq(m[b])]]

\* line 794 and 868: value + advantage - advantage.mean(dim=-1,
\* keepdim=True) on a value of w columns and an advantage of k columns,
\* as a matrix of fractions num / den; columns broadcast when one side
\* has a single one
Dueling_combine(value, advantage) ==
    LET k == Len(advantage[1])
        w == Len(value[1])
        mean == mean_last(advantage)
        n == IF k > w THEN k ELSE w
    IN IF k # w /\ k # 1 /\ w # 1
       THEN [raised |-> "RuntimeError", den |-> 1, num |-> <<>>,
             value |-> value, advantage |-> advantage]
       ELSE [raised |-> "none", den |-> mean.den,
             num |-> [b \in 1..Len(advantage) |->
                        [i \in 1..n |->
                           mean.den * value[b][IF w = 1 THEN 1 ELSE i]
                           + mean.den * advantage[b][IF k = 1 THEN 1 ELSE i]
                           - mean.num[b]]],
             value |-> value, advantage |-> advantage]

\* the forward call of sub-network n of composite c on tensor x
Sub_forward(c, n, x) ==
    LET cls == IF c.cls = "DuelingCnnDQNet" /\ n = "features"
               THEN "ConvNet" ELSE "MLP"
        ls == c.nets[n].layers
    IN IF cls = "MLP"
       THEN MLP_forward(ArgsOf("MLP", c.calls[n].kwargs), ls, <<x>>)
       ELSE Conv_forward(cls, ls, x)

\* the composite c after sub-network n was called with outcome r
Sub_called(c, n, r) ==
    [c EXCEPT !.nets[n] =
        [layers |-> r.layers,
         params |-> Materialize_params(r.layers, c.nets[n].params)]]

\* lines 790-794 and 864-868: the forward call of a dueling network on
\* x, adv and val being what the advantage and value networks compute
Dueling_forward(c, x, adv, val) ==
    With(Sub_forward(c, "features", x), LAMBDA f :
    With(Sub_called(c, "features", f), LAMBDA c1 :
    IF f.raised # "none"
    THEN [comp |-> c1, res |-> [NoRes EXCEPT !.raised = f.raised]]
    ELSE
    With(Sub_forward(c1, "advantage", f.out), LAMBDA a :
    With(Sub_called(c1, "advantage", a), LAMBDA c2 :
    IF a.raised # "none"
    THEN [comp |-> c2, res |-> [NoRes EXCEPT !.raised = a.raised]]
    ELSE
    With(Sub_forward(c2, "value", f.out), LAMBDA v :
    With(Sub_called(c2, "value", v), LAMBDA c3 :
    IF v.raised # "none"
    THEN [comp |-> c3, res |-> [NoRes EXCEPT !.raised = v.raised]]
    ELSE [comp |-> c3,
          res |-> Dueling_combine(
                      [b \in 1..a.out.shape[1] |->
                         [i \in 1..v.out.shape[2] |-> val[b][i]]],
                      [b \in 1..a.out.shape[1] |->
                         [i \in 1..a.out.shape[2] |-> adv[b][i]]])]))))))

\* the dueling networks the forward calls are made on
InitDueling ==
    /\ \E cls \in {"DuelingMlpDQNet", "DuelingCnnDQNet"},
          f \in {EmptyDict, [in_features |-> 3]},
          k \in {1, 2, 3}, w \in {1, 2} :
         With(Dueling_init(cls, [out_features |-> k,
                                 out_features_value |-> w,
                                 feature |-> f, output |-> EmptyDict,
                                 device |-> "None"]), LAMBDA c :
              /\ comp = c
              /\ raised = c.raised
              /\ pc = IF c.raised = "none" THEN "built" ELSE "raised")
    /\ args = NoArgs
    /\ self = NoSelf
    /\ layers = <<>>
    /\ inputs = <<>>
    /\ fed = NoTensor
    /\ ret = NoTensor
    /\ params = <<>>
    /\ scale = 0
    /\ res = NoRes
    /\ td = EmptyDict

\* net(x) for a dueling network: x has one batch dimension
ForwardDueling(cls) ==
    /\ pc = "built" /\ comp.cls = cls
    /\ \E rows \in Rows, channels \in {3, 4} :
       \E adv \in [1..rows ->
                      [1..comp.calls["advantage"].kwargs["out_features"].v
                         -> {0 - 1, 2}]],
          val \in [1..rows ->
                      [1..comp.calls["value"].kwargs["out_features"].v
                         -> {0, 3}]] :
         With(Tensor(IF cls = "DuelingMlpDQNet" THEN <<rows, channels>>
                     ELSE <<rows, channels, 36, 36>>, <<1>>, "input"),
              LAMBDA x :
         With(Dueling_forward(comp, x, adv, val), LAMBDA r :
              /\ inputs' = <<x>>
              /\ comp' = r.comp
              /\ res' = r.res
              /\ raised' = r.res.raised
              /\ pc' = IF r.res.raised = "none" THEN "returned"
                       ELSE "failed"))
    /\ UNCHANGED <<args, self, layers, fed, ret, parvars, td>>

ForwardDuelingMlpDQNet == ForwardDueling("DuelingMlpDQNet")

ForwardDuelingCnnDQNet == ForwardDueling("DuelingCnnDQNet")

NextDueling == ForwardDuelingMlpDQNet \/ ForwardDuelingCnnDQNet

SpecDueling == InitDueling /\ [][NextDueling]_vars

(* ------------------------- DistributionalDQNnet ------------------------ *)

\* no wrapped network
NoDQNet == [present |-> FALSE, args |-> NoArgs, layers |-> <<>>]

\* lines 891-909: DistributionalDQNnet(DQNet, in_keys, out_keys), keys
\* given as sequences, <<>> standing for None
Dist_init(DQNet, in_keys, out_keys) ==
    [cls |-> "DistributionalDQNnet",
     raised |-> IF DQNet.present
                   /\ ~(~isNumber(DQNet.args.out_features)
                        /\ Len(DQNet.args.out_features.s) > 1)
                THEN "RuntimeError" ELSE "none",
     scale |-> 0,
     dqn |-> DQNet,
     given |-> [in_keys |-> in_keys, out_keys |-> out_keys],
     in_keys |-> IF in_keys = <<>> THEN <<"action_value">> ELSE in_keys,
     out_keys |-> IF out_keys = <<>> THEN <<"action_value">> ELSE out_keys]

\* F.log_softmax(q, dim=-2): a tensor of the shape of q
log_softmax(q) ==
    Tensor(q.shape, q.data,
           IF q.by = "MLP" THEN "log_softmax(MLP)" ELSE "log_softmax")

\* the divisor of entry (i, j) of exp(F.log_softmax(q, dim=-2)), e being
\* the exponentials of the entries of q along its last two axes, atoms
\* by actions: the sum along the second-to-last axis
softmax_den_lastAxis(e, i, j) == SumSeq(e[i])

softmax_den(e, i, j) == SumSeq([k \in 1..Len(e) |-> e[k][j]])

\* exp(F.log_softmax(q, dim=-2)) along the last two axes, as the fractions
\* num[i][j] / den[i][j]
softmax(e) ==
    [num |-> e,
     den |-> [i \in 1..Len(e) |->
                [j \in 1..Len(e[i]) |-> softmax_den(e, i, j)]]]

Dist_too_few_dims_below1(q) == Len(q.shape) < 1

\* line 917: q_values.ndimension() < 2
Dist_too_few_dims(q) == Len(q.shape) < 2

\* lines 915-916: the wrapped network, when there is one, applied to x
Dist_dqn(d, x) ==
    IF d.dqn.present
    THEN MLP_forward(d.dqn.args, d.dqn.layers, <<x>>)
    ELSE [raised |-> "none", fed |-> NoTensor, out |-> x,
          layers |-> d.dqn.layers]

RECURSIVE Dist_loop(_, _, _, _)
RECURSIVE Dist_check(_, _, _, _, _)
Dist_check_setFirst(d, t, i, qs, r) ==
    IF r.raised # "none"
    THEN [raised |-> r.raised, at |-> "dqn",
          dist |-> [d EXCEPT !.dqn.layers = r.layers], td |-> t,
          q_values |-> qs]
    ELSE IF Dist_too_few_dims(r.out)
    THEN [raised |-> "RuntimeError", at |-> "check",
          dist |-> [d EXCEPT !.dqn.layers = r.layers],
          td |-> Update(t, [k \in {d.out_keys[i]} |-> log_softmax(r.out)]),
          q_values |-> Append(qs, r.out)]
    ELSE Dist_loop([d EXCEPT !.dqn.layers = r.layers],
                   Update(t, [k \in {d.out_keys[i]} |-> log_softmax(r.out)]),
                   i + 1, Append(qs, r.out))

\* lines 917-921 of iteration i: r is the outcome of the wrapped network
\* (or the tensor got from the slot); the check on its rank, the write of
\* the output slot, and the iterations that follow
Dist_check(d, t, i, qs, r) ==
    IF r.raised # "none"
    THEN [raised |-> r.raised, at |-> "dqn",
          dist |-> [d EXCEPT !.dqn.layers = r.layers], td |-> t,
          q_values |-> qs]
    ELSE IF Dist_too_few_dims(r.out)
    THEN [raised |-> "RuntimeError", at |-> "check",
          dist |-> [d EXCEPT !.dqn.layers = r.layers], td |-> t,
          q_values |-> Append(qs, r.out)]
    ELSE Dist_loop([d EXCEPT !.dqn.layers = r.layers],
                   Update(t, [k \in {d.out_keys[i]} |-> log_softmax(r.out)]),
                   i + 1, Append(qs, r.out))

Dist_loop_firstKey(d, t, i, qs) ==
    IF i > Min({Len(d.in_keys), Len(d.out_keys)})
    THEN [raised |-> "none", at |-> "return", dist |-> d, td |-> t,
          q_values |-> qs]
    ELSE IF d.in_keys[1] \notin DOMAIN t
    THEN [raised |-> "KeyError", at |-> "get", dist |-> d, td |-> t,
          q_values |-> qs]
    ELSE Dist_check(d, t, i, qs, Dist_dqn(d, t[d.in_keys[1]]))

\* lines 913-921: iterations i, i+1, ... of the loop over zip(in_keys,
\* out_keys) on tensordict t; qs is the q_values checked so far, at the
\* statement the loop ended in
Dist_loop(d, t, i, qs) ==
    IF i > Min({Len(d.in_keys), Len(d.out_keys)})
    THEN [raised |-> "none", at |-> "return", dist |-> d, td |-> t,
          q_values |-> qs]
    ELSE IF d.in_keys[i] \notin DOMAIN t
    THEN [raised |-> "KeyError", at |-> "get", dist |-> d, td |-> t,
          q_values |-> qs]
    ELSE Dist_check(d, t, i, qs, Dist_dqn(d, t[d.in_keys[i]]))

\* lines 911-922: forward(tensordict)
Dist_forward(d, t) == Dist_loop(d, t, 1, <<>>)

\* the wrapped networks
DistDQNets ==
    {NoDQNet}
    \cup {[present |-> TRUE, args |-> a, layers |-> MLP_init(a).layers] :
            a \in {[NoArgs EXCEPT !.cls = "MLP", !.in_features = inf,
                                  !.out_features = outf,
                                  !.num_cells = SeqArg(<<4>>)] :
                     inf \in {None, 3},
                     outf \in {IntArg(6), SeqArg(<<6>>), SeqArg(<<2, 4>>)}}}

\* the slot names given to the constructor
DistKeys ==
    {<<<<>>, <<>>>>, <<<<>>, <<"b">>>>, <<<<"a">>, <<>>>>,
     <<<<"a", "b">>, <<"a", "b">>>>,
     <<<<"a", "b">>, <<"b", "c">>>>, <<<<"a", "b">>, <<"a">>>>}

\* the tensordicts forward is called on
TensorDicts ==
    UNION {[K -> {<<>>, <<3>>, <<2, 3>>, <<1, 2, 3>>}] :
             K \in SUBSET {"action_value", "a", "b"}}

InitDist ==
    /\ \E q \in DistDQNets, ks \in DistKeys :
         LET d == Dist_init(q, ks[1], ks[2])
         IN /\ comp = d
            /\ raised = d.raised
            /\ pc = IF d.raised = "none" THEN "built" ELSE "raised"
    /\ args = NoArgs
    /\ self = NoSelf
    /\ layers = <<>>
    /\ inputs = <<>>
    /\ fed = NoTensor
    /\ ret = NoTensor
    /\ params = <<>>
    /\ scale = 0
    /\ res = NoRes
    /\ td = EmptyDict

\* the exponentials of the entries of the first q_values along its last
\* two axes: entry (i, j) is w[i] + j - 1
Exponentials(r) ==
    IF r.q_values = <<>> \/ Len(r.q_values[1].shape) < 2
    THEN {<<>>}
    ELSE {[i \in 1..TakeLast(r.q_values[1].shape, 2)[1] |->
             [j \in 1..TakeLast(r.q_values[1].shape, 2)[2] |->
                w[i] + j - 1]] :
            w \in [1..TakeLast(r.q_values[1].shape, 2)[1] -> {1, 2}]}

ReturnDist(t, r, e) ==
    /\ inputs' = <<t>>
    /\ comp' = r.dist
    /\ td' = r.td
    /\ res' = [raised |-> r.raised, at |-> r.at, q_values |-> r.q_values,
               exp |-> IF r.at = "return" /\ e # <<>> THEN softmax(e)
                       ELSE softmax(<<>>)]
    /\ raised' = r.raised
    /\ pc' = IF r.raised = "none" THEN "returned" ELSE "failed"
    /\ UNCHANGED <<args, self, layers, fed, ret, parvars>>

\* module(tensordict)
ForwardDist ==
    /\ pc = "built" /\ comp.cls = "DistributionalDQNnet"
    /\ \E shapes \in TensorDicts :
         With([k \in DOMAIN shapes |->
                 Tensor(shapes[k],
                        <<IF k = "action_value" THEN 1
                          ELSE IF k = "a" THEN 2 ELSE 3>>, "input")],
              LAMBDA t :
         With(Dist_forward(comp, t), LAMBDA r :
              \E e \in Exponentials(r) : ReturnDist(t, r, e)))

NextDist == ForwardDist

SpecDist == InitDist /\ [][NextDist]_vars

(* ------------------------- forward of LSTMNet -------------------------- *)

\* A hidden tensor's data labels its slices along the time axis when it
\* has one, and the whole tensor otherwise; 0 labels zeros.

\* x.unsqueeze(d), d counted from 0
unsqueeze(x, d) ==
    [x EXCEPT !.shape = SubSeq(x.shape, 1, d) \o <<1>>
                          \o SubSeq(x.shape, d + 1, Len(x.shape))]

\* x.squeeze(d): axis d is dropped when its size is 1
squeeze(x, d) ==
    IF Len(x.shape) > d /\ x.shape[d + 1] = 1
    THEN [x EXCEPT !.shape = SubSeq(x.shape, 1, d)
                               \o SubSeq(x.shape, d + 2, Len(x.shape))]
    ELSE x

\* x.transpose(d, d + 1), d counted from 0
transpose(x, d) ==
    [x EXCEPT !.shape = [k \in 1..Len(x.shape) |->
                           IF k = d + 1 THEN x.shape[d + 2]
                           ELSE IF k = d + 2 THEN x.shape[d + 1]
                           ELSE x.shape[k]]]

LSTM_squeeze1_rank1Only(input) == Len(input.shape) = 1

\* lines 1298-1302: squeeze0
LSTM_squeeze0(input) == Len(input.shape) = 1

\* lines 1300-1305: squeeze1, true of an input of rank 1 (which has rank 2
\* once unsqueezed) or 2
LSTM_squeeze1(input) == Len(input.shape) \in {1, 2}

\* lines 1300-1306: the input with the batch and time axes it lacks
LSTM_input(input) ==
    With(IF LSTM_squeeze0(input) THEN unsqueeze(input, 0) ELSE input,
         LAMBDA batched :
         IF LSTM_squeeze1(input) THEN unsqueeze(batched, 1) ELSE batched)

\* the keywords nn.LSTM was given, with the defaults of the ones it was not
LSTM_num_layers(c) == Get(c.calls["lstm"].kwargs, "num_layers", 1)
LSTM_hidden_size(c) == c.calls["lstm"].kwargs["hidden_size"]

LSTM_zeros_noSteps(c, input, batch, steps) ==
    Tensor(<<batch, LSTM_num_layers(c), LSTM_hidden_size(c)>>, <<0>>,
           "zeros")

\* lines 1310-1320: torch.zeros(*shape, num_layers, hidden_size)
LSTM_zeros(c, input, batch, steps) ==
    IF ~LSTM_squeeze1(input)
    THEN Tensor(<<batch, steps, LSTM_num_layers(c), LSTM_hidden_size(c)>>,
                Repeat(0, steps), "zeros")
    ELSE Tensor(<<batch, LSTM_num_layers(c), LSTM_hidden_size(c)>>, <<0>>,
                "zeros")

\* lines 1309-1327: the hidden tensors the call goes on with, NoTensor
\* standing for None
LSTM_hidden_in(c, input, batch, steps, hidden0_in, hidden1_in) ==
    IF hidden1_in = NoTensor /\ hidden0_in = NoTensor
    THEN [raised |-> "none", created |-> TRUE,
          hidden0_in |-> LSTM_zeros(c, input, batch, steps),
          hidden1_in |-> LSTM_zeros(c, input, batch, steps)]
    ELSE IF hidden1_in = NoTensor \/ hidden0_in = NoTensor
    THEN [raised |-> "RuntimeError", created |-> FALSE,
          hidden0_in |-> hidden0_in, hidden1_in |-> hidden1_in]
    ELSE IF LSTM_squeeze0(input)
    THEN [raised |-> "none", created |-> FALSE,
          hidden0_in |-> unsqueeze(hidden0_in, 0),
          hidden1_in |-> unsqueeze(hidden1_in, 0)]
    ELSE [raised |-> "none", created |-> FALSE,
          hidden0_in |-> hidden0_in, hidden1_in |-> hidden1_in]

\* lines 1330-1339: hidden[:, 0] when there is a time axis, and
\* transpose(-3, -2)
LSTM_first_hidden(input, h) ==
    With(IF LSTM_squeeze1(input) THEN h
         ELSE IF Len(h.shape) < 2 \/ h.shape[2] < 1 THEN NoTensor
         ELSE Tensor(<<h.shape[1]>> \o SubSeq(h.shape, 3, Len(h.shape)),
                     <<h.data[1]>>, h.by),
         LAMBDA _h :
         IF _h = NoTensor \/ Len(_h.shape) < 3
         THEN [raised |-> "IndexError", hidden |-> NoTensor]
         ELSE [raised |-> "none",
               hidden |-> transpose(_h, Len(_h.shape) - 3)])

\* line 1341: nn.LSTM(batch_first=True) of c on an input and a pair of
\* hidden tensors: the input is [batch, steps, input_size], each hidden
\* tensor [num_layers, batch, hidden_size]
LSTM_cell(c, input, h0, h1) ==
    IF Len(input.shape) # 3
    THEN [raised |-> "ValueError", y0 |-> NoTensor, hidden |-> <<>>]
    ELSE IF \/ Len(h0.shape) # 3 \/ Len(h1.shape) # 3
            \/ input.shape[3] # c.calls["lstm"].kwargs["input_size"]
            \/ \E h \in {h0, h1} :
                 h.shape # <<LSTM_num_layers(c), input.shape[1],
                             LSTM_hidden_size(c)>>
    THEN [raised |-> "RuntimeError", y0 |-> NoTensor, hidden |-> <<>>]
    ELSE [raised |-> "none",
          y0 |-> Tensor(<<input.shape[1], input.shape[2],
                          LSTM_hidden_size(c)>>, input.data, "lstm"),
          hidden |-> <<Tensor(h0.shape, <<100 + h0.data[1]>>, "lstm"),
                       Tensor(h1.shape, <<200 + h1.data[1]>>, "lstm")>>]

LSTM_hidden_out_asIs(h) == h

\* line 1343: _h.transpose(0, 1)
LSTM_hidden_out(h) == transpose(h, 0)

LSTM_pad_trailing(h, steps) ==
    Tensor(<<h.shape[1], steps>> \o Tail(h.shape),
           h.data \o Repeat(0, steps - 1), h.by)

\* lines 1352-1357: torch.stack([zeros_like(h)] * (steps - 1) + [h], 1)
LSTM_pad(h, steps) ==
    Tensor(<<h.shape[1], Max({steps - 1, 0}) + 1>> \o Tail(h.shape),
           Repeat(0, steps - 1) \o h.data, h.by)

\* the outcome of a call that raised err at the statement named at
LSTM_raised(c, err, at, input, created, hidden_in) ==
    [comp |-> c,
     res |-> [raised |-> err, at |-> at, out |-> <<>>, input |-> input,
              created |-> created, hidden_in |-> hidden_in, cell |-> <<>>]]

\* lines 1346-1360: the five values returned, y being self.linear(y0),
\* hin the hidden tensors the call went on with and hidden the pair the
\* recurrent cell returned, transposed
LSTM_out(input, steps, y, hin, hidden) ==
    With([i \in 1..5 |->
            IF i = 1 THEN IF LSTM_squeeze1(input) THEN squeeze(y, 1) ELSE y
            ELSE IF i = 2 THEN hin.hidden0_in
            ELSE IF i = 3 THEN hin.hidden1_in
            ELSE IF ~LSTM_squeeze1(input) THEN LSTM_pad(hidden[i - 3], steps)
            ELSE hidden[i - 3]],
         LAMBDA out :
         IF LSTM_squeeze0(input) THEN [i \in 1..5 |-> squeeze(out[i], 0)]
         ELSE out)

\* lines 1292-1360: _lstm(input, hidden0_in, hidden1_in) of the LSTMNet c
LSTMNet__lstm(c, input, hidden0_in, hidden1_in) ==
    With(LSTM_input(input), LAMBDA x :
    IF Len(x.shape) < 2
    THEN LSTM_raised(c, "ValueError", "shape", x, FALSE, <<>>)
    ELSE
    With(LSTM_hidden_in(c, input, x.shape[1], x.shape[2],
                        hidden0_in, hidden1_in), LAMBDA hin :
    IF hin.raised # "none"
    THEN LSTM_raised(c, hin.raised, "hidden", x, FALSE, <<>>)
    ELSE
    With(LSTM_first_hidden(input, hin.hidden0_in), LAMBDA f0 :
    With(LSTM_first_hidden(input, hin.hidden1_in), LAMBDA f1 :
    IF f0.raised # "none" \/ f1.raised # "none"
    THEN LSTM_raised(c, "IndexError", "index", x, hin.created,
                     <<hin.hidden0_in, hin.hidden1_in>>)
    ELSE
    With(LSTM_cell(c, x, f0.hidden, f1.hidden), LAMBDA r :
    IF r.raised # "none"
    THEN LSTM_raised(c, r.raised, "cell", x, hin.created,
                     <<hin.hidden0_in, hin.hidden1_in>>)
    ELSE
    With(Sub_forward(c, "linear", r.y0), LAMBDA y :
    With(<<LSTM_hidden_out(r.hidden[1]), LSTM_hidden_out(r.hidden[2])>>,
         LAMBDA hidden :
    [comp |-> Sub_called(c, "linear", y),
     res |-> [raised |-> y.raised, at |-> "return",
              out |-> LSTM_out(input, x.shape[2], y.out, hin, hidden),
              input |-> x, created |-> hin.created,
              hidden_in |-> <<hin.hidden0_in, hin.hidden1_in>>,
              cell |-> hidden]])))))))

\* lines 1362-1369: forward(input, hidden0_in, hidden1_in)
LSTMNet_forward(c, input, hidden0_in, hidden1_in) ==
    With(Sub_forward(c, "mlp", input), LAMBDA f :
         IF f.raised # "none"
         THEN LSTM_raised(Sub_called(c, "mlp", f), f.raised, "mlp",
                          NoTensor, FALSE, <<>>)
         ELSE LSTMNet__lstm(Sub_called(c, "mlp", f), f.out,
                            hidden0_in, hidden1_in))

\* the networks the forward calls are made on
InitLSTM ==
    /\ \E l \in {[input_size |-> 4, hidden_size |-> 5],
                  [input_size |-> 4, hidden_size |-> 5, num_layers |-> 2]},
          m \in {[out_features |-> IntArg(4)],
                 [in_features |-> 3, out_features |-> IntArg(4)],
                 [out_features |-> IntArg(3)]} :
         With(LSTMNet_init([out_features |-> 2, first |-> l, second |-> m,
                            device |-> "None"]), LAMBDA c :
              /\ comp = c
              /\ raised = c.raised
              /\ pc = IF c.raised = "none" THEN "built" ELSE "raised")
    /\ args = NoArgs
    /\ self = NoSelf
    /\ layers = <<>>
    /\ inputs = <<>>
    /\ fed = NoTensor
    /\ ret = NoTensor
    /\ params = <<>>
    /\ scale = 0
    /\ res = NoRes
    /\ td = EmptyDict

\* the shapes of the inputs
LSTMInputShapes ==
    {<<3>>, <<1, 3>>, <<2, 3>>, <<1, 1, 3>>, <<2, 1, 3>>, <<2, 3, 3>>,
     <<2, 2, 2, 3>>}

\* the hidden tensors a caller supplies, None included: of the shape a
\* call on an input of the same shape returns, of that shape with another
\* number of steps, or of another rank
LSTMHidden(shape, base) ==
    {NoTensor}
    \cup {Tensor(DropLast(shape, 1) \o <<num_layers, 5>>,
                 IF Len(shape) = 3
                 THEN [k \in 1..shape[2] |-> base + k] ELSE <<base + 1>>,
                 "input") : num_layers \in {1, 2}}
    \cup (IF Len(shape) = 3
          THEN {Tensor(<<shape[1], steps, 1, 5>>,
                       [k \in 1..steps |-> base + k], "input") :
                  steps \in {1, 2}}
          ELSE {})
    \cup {Tensor(<<1, 1, 1, 1, 5>>, <<base + 1>>, "input")}

ReturnLSTM(x, h0, h1, r) ==
    /\ inputs' = <<x, h0, h1>>
    /\ comp' = r.comp
    /\ res' = r.res
    /\ raised' = r.res.raised
    /\ pc' = IF r.res.raised = "none" THEN "returned" ELSE "failed"
    /\ UNCHANGED <<args, self, layers, fed, ret, parvars, td>>

\* net(input, hidden0_in, hidden1_in)
ForwardLSTMNet ==
    /\ pc = "built" /\ comp.cls = "LSTMNet"
    /\ \E shape \in LSTMInputShapes :
       \E h0 \in LSTMHidden(shape, 10), h1 \in LSTMHidden(shape, 20) :
         ReturnLSTM(Tensor(shape, <<1>>, "input"), h0, h1,
                    LSTMNet_forward(comp, Tensor(shape, <<1>>, "input"),
                                    h0, h1))

NextLSTM == ForwardLSTMNet

SpecLSTM == InitLSTM /\ [][NextLSTM]_vars

(* ------------------------- OnlineDTActor ------------------------------- *)

\* torch.tanh returns a value in [-1, 1]: the values n / TanhDen, n in
\* -TanhDen..TanhDen
TanhDen == 64

\* lines 1399-1433: the bounds of log_std that the constructor sets
OnlineDTActor_init ==
    [cls |-> "OnlineDTActor", raised |-> "none", scale |-> 0,
     log_std_min |-> 0 - 5, log_std_max |-> 2]

OnlineDTActor_log_std_unshifted(a, n) ==
    [num |-> 2 * TanhDen * a.log_std_min
               + (a.log_std_max - a.log_std_min) * n,
     den |-> 2 * TanhDen]

\* lines 1448-1450: log_std_min + 0.5 * (log_std_max - log_std_min)
\* * (log_std + 1.0) for log_std = n / TanhDen, as the fraction num / den
OnlineDTActor_log_std(a, n) ==
    [num |-> 2 * TanhDen * a.log_std_min
               + (a.log_std_max - a.log_std_min) * (n + TanhDen),
     den |-> 2 * TanhDen]

\* lines 1445-1453: the scale returned when tanh of the log-std
\* projection is n / TanhDen: the exponential of the mapped log_std
OnlineDTActor_forward(a, n) ==
    With(OnlineDTActor_log_std(a, n), LAMBDA log_std :
         [raised |-> "none", tanh |-> n, log_std |-> log_std,
          std |-> [fn |-> "exp", num |-> log_std.num,
                   den |-> log_std.den]])

InitDT ==
    /\ comp = OnlineDTActor_init
    /\ pc = "built"
    /\ raised = "none"
    /\ args = NoArgs
    /\ self = NoSelf
    /\ layers = <<>>
    /\ inputs = <<>>
    /\ fed = NoTensor
    /\ ret = NoTensor
    /\ params = <<>>
    /\ scale = 0
    /\ res = NoRes
    /\ td = EmptyDict

\* mu, std = model(observation, action, return_to_go)
ForwardOnlineDT ==
    /\ pc = "built" /\ comp.cls = "OnlineDTActor"
    /\ \E n \in (0 - TanhDen)..TanhDen :
         /\ res' = OnlineDTActor_forward(comp, n)
         /\ raised' = "none"
         /\ pc' = "returned"
    /\ UNCHANGED <<args, self, layers, fwdvars, parvars, comp, td>>

NextDT == ForwardOnlineDT

SpecDT == InitDT /\ [][NextDT]_vars

(* ------------------- reading a constructed network --------------------- *)

IsMLP == pc # "idle" /\ args.cls = "MLP"
IsConv == pc # "idle" /\ args.cls \in {"ConvNet", "Conv3dNet"}

\* the weighted layers, in order
Weighted == SelectSeq(layers, LAMBDA m : m.kind = "layer")

LayerPos == {p \in 1..Len(layers) : layers[p].kind = "layer"}

\* 0-based index of the weighted layer at position p
Index0(p) == Cardinality({q \in LayerPos : q < p})

NextLayerPos(p) ==
    IF \E q \in LayerPos : q > p
    THEN Min({q \in LayerPos : q > p})
    ELSE Len(layers) + 1

\* kinds of the modules between the weighted layer at p and the next one
SegmentAfter(p) ==
    LET seg == SubSeq(layers, p + 1, NextLayerPos(p) - 1)
    IN [i \in 1..Len(seg) |-> seg[i].kind]

CountKind(k) == Cardinality({p \in 1..Len(layers) : layers[p].kind = k})

\* an MLP call whose arguments pass every check of __init__
MLPArgsValid ==
    /\ args.out_features.tag # "none"
    /\ ~args.single_bias_last_layer
    /\ (args.depth = None => args.num_cells.tag # "int")
    /\ (args.depth # None =>
          IF isSequence(args.num_cells)
          THEN Len(args.num_cells.s) = args.depth
          ELSE args.depth >= 0)
    /\ (args.in_features = None => args.layer_class \in DOMAIN LazyMapping)

\* the four per-layer arguments of a convolutional call
ConvArgs == <<args.num_cells, args.kernel_sizes, args.strides, args.paddings>>

ConvSeqLens == {Len(ConvArgs[k].s) : k \in {j \in 1..4 : isSequence(ConvArgs[j])}}

(* ----------------------------- claims ---------------------------------- *)

\* C1: an MLP call with an explicit depth d and a sequence num_cells of
\* length other than d raises, and no layer has been created at the raise.
C1_MLPDepthMismatchFails ==
    (IsMLP /\ args.depth # None /\ isSequence(args.num_cells)
           /\ Len(args.num_cells.s) # args.depth)
    => (pc = "raised" /\ raised # "none" /\ layers = <<>>)

C1_Witness ==
    /\ IsMLP /\ args.depth = 1 /\ args.num_cells = SeqArg(<<4, 5>>)
    /\ args.out_features.tag # "none" /\ ~args.single_bias_last_layer
    /\ raised = "RuntimeError" /\ layers = <<>>

\* C2: every valid MLP call builds a network of depth+1 weighted layers;
\* layer 0 takes in_features, layer i takes num_cells[i-1], layer i < depth
\* emits num_cells[i], layer depth emits out_features, and each layer's
\* output width is the next layer's input width.
C2_MLPLayerChain ==
    /\ (IsMLP /\ MLPArgsValid) => pc = "built"
    /\ (IsMLP /\ pc = "built") =>
         LET d == self.depth
             W == Weighted
         IN /\ d >= 0
            /\ (args.depth # None => d = args.depth)
            /\ (isSequence(args.num_cells) => self.num_cells = args.num_cells.s)
            /\ Len(self.num_cells) = d
            /\ Len(W) = d + 1
            /\ IF args.in_features = None
               THEN W[1].lazy
               ELSE ~W[1].lazy /\ W[1].in = args.in_features
            /\ \A i \in 1..d :
                 /\ W[i].out = self.num_cells[i]
                 /\ W[i + 1].in = self.num_cells[i]
                 /\ W[i].out = W[i + 1].in
            /\ W[d + 1].out = MLP_out_features_num(args.out_features)

C2_Witness ==
    /\ IsMLP /\ pc = "built"
    /\ args.num_cells = SeqArg(<<4, 5>>) /\ args.in_features = 3
    /\ Len(Weighted) = 3 /\ Weighted[2].in = 4 /\ Weighted[2].out = 5

\* C3: a ConvNet / Conv3dNet call in which two sequence-valued arguments
\* among num_cells, kernel_sizes, strides, paddings differ in length, or an
\* explicit depth differs from the length of one of them, raises and builds
\* nothing.
C3_ConvMismatchFails ==
    (IsConv /\ (\/ Cardinality(ConvSeqLens) > 1
                \/ (args.depth # None /\ \E l \in ConvSeqLens : l # args.depth)))
    => (pc = "raised" /\ raised # "none" /\ layers = <<>>)

C3_Witness ==
    /\ IsConv /\ args.depth = 2 /\ args.num_cells = SeqArg(<<4, 5>>)
    /\ args.kernel_sizes = SeqArg(<<3>>)
    /\ ~isSequence(args.strides) /\ ~isSequence(args.paddings)
    /\ pc = "raised" /\ layers = <<>>

\* C4: a convolutional call of resolved depth 0 is rejected; a built
\* network has depth >= 1, its four per-layer sequences have length depth
\* (a scalar repeated depth times), and it has depth convolutions, layer i
\* mapping num_cells[i-1] (in_features for i = 0) to num_cells[i].
C4_ConvDepthAndLayers ==
    /\ (IsConv /\ (args.depth = 0 \/ (args.depth = None /\ 0 \in ConvSeqLens)))
         => pc = "raised"
    /\ (IsConv /\ pc = "built") =>
         LET d == self.depth
             W == Weighted
         IN /\ d >= 1
            /\ \A f \in {"num_cells", "kernel_sizes", "strides", "paddings"} :
                 /\ Len(self[f]) = d
                 /\ (isSequence(args[f]) => self[f] = args[f].s)
                 /\ (isNumber(args[f]) => self[f] = Repeat(args[f].v, d))
            /\ Len(W) = d
            /\ IF args.in_features = None
               THEN W[1].lazy
               ELSE ~W[1].lazy /\ W[1].in = args.in_features
            /\ \A i \in 1..d : W[i].out = self.num_cells[i]
            /\ \A i \in 2..d : W[i].in = self.num_cells[i - 1]

C4_Witness ==
    /\ IsConv /\ pc = "built" /\ args.depth = 2
    /\ args.num_cells = SeqArg(<<4, 5>>) /\ isNumber(args.kernel_sizes)
    /\ self.kernel_sizes = <<3, 3>> /\ Len(Weighted) = 2
    /\ Weighted[2].in = 4 /\ Weighted[2].out = 5

\* C5: the bias flag of convolution i is (i is a non-final layer) or
\* bias_last_layer: non-final convolutions have a bias and the final one
\* has a bias exactly when bias_last_layer is true.
C5_ConvBiasRule ==
    (IsConv /\ pc = "built") =>
        \A i \in 1..Len(Weighted) :
            Weighted[i].bias = ((i < Len(Weighted)) \/ args.bias_last_layer)

\* C6: after every convolution come normalization (if configured) and then
\* activation, in that order; no dropout; the aggregator and then the
\* squeeze step come only after all convolution blocks.
C6_ConvNormThenActivation ==
    (IsConv /\ pc = "built") =>
        /\ CountKind("dropout") = 0
        /\ \A p \in LayerPos :
             SegmentAfter(p) =
                 (IF args.norm_class THEN <<"norm">> ELSE <<>>)
                 \o <<"activation">>
                 \o (IF NextLayerPos(p) > Len(layers)
                     THEN (IF args.aggregator_class
                           THEN <<"aggregator">> ELSE <<>>)
                          \o (IF args.squeeze_output
                              THEN <<"squeeze">> ELSE <<>>)
                     ELSE <<>>)

\* C7: in a built MLP of depth d every weighted layer i < d has a bias
\* whatever bias_last_layer is, and layer d has bias = bias_last_layer.
C7_MLPBiasRule ==
    (IsMLP /\ pc = "built") =>
        /\ Len(Weighted) = self.depth + 1
        /\ \A i \in 1..self.depth : Weighted[i].bias
        /\ Weighted[self.depth + 1].bias = args.bias_last_layer

C7_Witness ==
    /\ IsMLP /\ pc = "built" /\ ~args.bias_last_layer /\ self.depth = 2
    /\ Weighted[1].bias /\ Weighted[2].bias /\ ~Weighted[3].bias

\* C8: in a built MLP each weighted layer i < depth, and the last one only
\* when activate_last_layer, is followed by dropout (if configured), then
\* normalization (if configured), then activation; otherwise nothing
\* follows the last layer.  There are depth + (1 if activate_last_layer)
\* activations.
C8_MLPPostLayerOrder ==
    (IsMLP /\ pc = "built") =>
        /\ \A p \in LayerPos :
             SegmentAfter(p) =
                 IF Index0(p) < self.depth \/ args.activate_last_layer
                 THEN (IF args.dropout THEN <<"dropout">> ELSE <<>>)
                      \o (IF args.norm_class THEN <<"norm">> ELSE <<>>)
                      \o <<"activation">>
                 ELSE <<>>
        /\ CountKind("activation") =
              self.depth + (IF args.activate_last_layer THEN 1 ELSE 0)

C8_Witness ==
    /\ IsMLP /\ pc = "built" /\ args.dropout /\ args.norm_class
    /\ ~args.activate_last_layer /\ self.depth = 1
    /\ Len(layers) = 5
    /\ SegmentAfter(1) = <<"dropout", "norm", "activation">>
    /\ layers[5].kind = "layer"

\* C9 as stated: an MLP call without depth whose num_cells is omitted or a
\* single integer builds a network of depth 3 (three widths of 32 when
\* num_cells is omitted).
C9_Original ==
    (IsMLP /\ args.depth = None /\ ~isSequence(args.num_cells)
           /\ args.out_features.tag # "none" /\ ~args.single_bias_last_layer
           /\ (args.in_features = None =>
                 args.layer_class \in DOMAIN LazyMapping))
    => /\ pc = "built"
       /\ self.depth = 3
       /\ (args.num_cells.tag = "none" => self.num_cells = <<32, 32, 32>>)

\* C9 amended: without depth, an omitted num_cells gives depth 3 with three
\* widths of 32 (the call succeeds when its other arguments are valid); a
\* single-integer num_cells without depth raises before any layer is
\* created.
C9_MLPDefaultDepth ==
    /\ (IsMLP /\ args.depth = None /\ args.num_cells.tag = "none"
              /\ args.out_features.tag # "none"
              /\ ~args.single_bias_last_layer) =>
         /\ self.depth = 3
         /\ self.num_cells = <<32, 32, 32>>
         /\ ((args.in_features = None =>
                args.layer_class \in DOMAIN LazyMapping)
             => (pc = "built" /\ Len(Weighted) = 4))
    /\ (IsMLP /\ args.depth = None /\ isNumber(args.num_cells)) =>
         /\ pc = "raised" /\ layers = <<>>
         /\ ((args.out_features.tag # "none" /\ ~args.single_bias_last_layer)
             => raised = "RuntimeError")

C9_Witness ==
    /\ IsMLP /\ args.depth = None /\ args.num_cells.tag = "none"
    /\ pc = "built" /\ self.depth = 3 /\ Len(Weighted) = 4
    /\ Weighted[2].in = 32 /\ Weighted[3].out = 32

\* C10: with in_features None the first weighted layer of an MLP, and only
\* the first, is the lazy variant registered for layer_class, built from
\* its output width; with in_features given no layer is lazy; with
\* in_features None and no lazy variant registered the call raises a
\* KeyError and creates no layer.
C10_MLPLazyFirstLayer ==
    /\ (IsMLP /\ pc = "built") =>
         LET W == Weighted
         IN /\ IF args.in_features = None
               THEN /\ W[1].lazy
                    /\ W[1].cls = LazyMapping[args.layer_class]
                    /\ W[1].out = (self.num_cells
                                   \o <<self.out_features_num>>)[1]
               ELSE ~W[1].lazy /\ W[1].cls = args.layer_class
            /\ \A i \in 2..Len(W) : ~W[i].lazy /\ W[i].cls = args.layer_class
    /\ (IsMLP /\ args.in_features = None
              /\ args.layer_class \notin DOMAIN LazyMapping) =>
         /\ pc = "raised" /\ layers = <<>>
         /\ raised \in {"ValueError", "NotImplementedError", "RuntimeError",
                        "KeyError"}
         /\ ((/\ args.out_features.tag # "none"
              /\ ~args.single_bias_last_layer
              /\ (args.depth = None => args.num_cells.tag # "int")
              /\ (args.depth # None =>
                    IF isSequence(args.num_cells)
                    THEN Len(args.num_cells.s) = args.depth
                    ELSE args.depth >= 0))
             => raised = "KeyError")

C10_Witness ==
    /\ IsMLP /\ pc = "built" /\ args.in_features = None
    /\ args.layer_class = "NoisyLinear" /\ self.depth = 2
    /\ Weighted[1].cls = "NoisyLazyLinear" /\ Weighted[1].lazy
    /\ Weighted[2].cls = "NoisyLinear" /\ ~Weighted[3].lazy

(* ------------------------- forward calls ------------------------------- *)

\* the layers the network had when the forward call was made
ConstructedLayers ==
    IF args.cls = "MLP" THEN MLP_init(args).layers
    ELSE Conv_init(args.cls, args).layers

Called(cls) == pc \in {"returned", "failed"} /\ args.cls = cls

\* C11: an MLP called with two or more tensors hands its stack the single
\* tensor made of the inputs' blocks in argument order, its last dimension
\* the sum of theirs, and ends as the call on that one tensor ends; a
\* single input is handed over as it is.
C11_MLPConcatenatesInputs ==
    (Called("MLP") /\ fed # NoTensor) =>
        /\ Len(inputs) = 1 => fed = inputs[1]
        /\ Len(inputs) >= 2 =>
             /\ fed.data = [i \in 1..Len(inputs) |-> inputs[i].data[1]]
             /\ fed.shape = DropLast(inputs[1].shape, 1)
                  \o <<SumSeq([i \in 1..Len(inputs) |->
                                 inputs[i].shape[Len(inputs[i].shape)]])>>
        /\ LET once == MLP_forward(args, ConstructedLayers, <<fed>>)
           IN /\ once.raised = raised
              /\ once.out = ret
              /\ once.layers = layers

C11_Witness ==
    /\ pc = "returned" /\ args.cls = "MLP"
    /\ Len(inputs) = 3
    /\ inputs[1].shape # inputs[2].shape
    /\ fed.data = <<1, 2, 3>>

\* C12: the last layer of an MLP is as wide as a scalar out_features, or
\* as the product of a tuple out_features; a forward call that returns
\* keeps the input's leading dimensions and ends with that one dimension,
\* or with the dimensions of the tuple.
C12_MLPOutputShape ==
    (args.cls = "MLP" /\ pc \in {"built", "returned", "failed"}) =>
        LET k == args.out_features
            last == Weighted[Len(Weighted)]
        IN /\ k.tag = "int" => last.out = k.v
           /\ k.tag = "seq" => last.out = prod(k.s)
           /\ pc = "returned" =>
                ret.shape = DropLast(inputs[1].shape, 1)
                              \o (IF k.tag = "int" THEN <<k.v>> ELSE k.s)

C12_Witness ==
    /\ pc = "returned" /\ args.cls = "MLP"
    /\ args.out_features = SeqArg(<<2, 4>>)
    /\ Len(inputs) = 2
    /\ inputs[1].shape = <<2, 1>>
    /\ ret.shape = <<2, 2, 4>>

\* the leading (batch) dimensions of the input of a convolutional call
InputBatch == Conv_batch(args.cls, inputs[1].shape)

ConvCalled == Called("ConvNet") \/ Called("Conv3dNet")

\* the stack of a convolutional call was handed the input with two or
\* more leading dimensions flattened into one, and the input itself when
\* it has at most one
FedFlattened ==
    /\ Len(InputBatch) >= 2 =>
         /\ fed.shape = <<prod(InputBatch)>>
                          \o TakeLast(inputs[1].shape, TrailingDims(args.cls))
         /\ fed.data = inputs[1].data
    /\ Len(InputBatch) <= 1 => fed = inputs[1]

\* the result starts with the input's leading dimensions
BatchRestored ==
    /\ Len(ret.shape) >= Len(InputBatch)
    /\ SubSeq(ret.shape, 1, Len(InputBatch)) = InputBatch

\* C13 as stated: a ConvNet / Conv3dNet call flattens two or more leading
\* dimensions before the stack and not fewer, and in every case the
\* result's leading dimensions are the input's.
C13_Original ==
    /\ (ConvCalled /\ fed # NoTensor) => FedFlattened
    /\ (ConvCalled /\ pc = "returned") => BatchRestored

\* C13, amended: a ConvNet / Conv3dNet call flattens two or more leading
\* dimensions before the stack and not fewer, and the result of a call
\* that returns starts with the input's leading dimensions unless the
\* network has both the default aggregator and the output squeeze.
C13_ConvBatchRoundTrip ==
    /\ (ConvCalled /\ fed # NoTensor) => FedFlattened
    /\ (ConvCalled /\ pc = "returned"
          /\ ~(args.aggregator_class /\ args.squeeze_output))
       => BatchRestored

C13_Witness ==
    /\ ConvCalled /\ pc = "returned"
    /\ InputBatch = <<2, 1, 2>>
    /\ fed.shape[1] = 4
    /\ args.squeeze_output
    /\ SubSeq(ret.shape, 1, 3) = <<2, 1, 2>>

\* C14: a ConvNet call on an input of fewer than 3 dimensions and a
\* Conv3dNet call on one of fewer than 4 raise ValueError with nothing
\* handed to the stack, no result, and the modules as constructed.
C14_ConvTooFewDimsFails ==
    (ConvCalled /\ Len(inputs[1].shape) < (IF args.cls = "ConvNet" THEN 3
                                           ELSE 4))
    => /\ pc = "failed"
       /\ raised = "ValueError"
       /\ fed = NoTensor
       /\ ret = NoTensor
       /\ layers = ConstructedLayers

C14_Witness ==
    /\ Called("Conv3dNet") /\ pc = "failed"
    /\ Len(inputs[1].shape) = 3
    /\ raised = "ValueError"
    /\ layers[1].lazy

(* ------------------------- last-layer init ----------------------------- *)

\* every entry of q is within [-s/2, s/2]
Within(q, s) == \A j \in 1..Len(q) : -(s \div 2) <= q[j] /\ q[j] <= s \div 2

\* the position of the last linear / 2D-convolutional layer of ls
LastLinearOrConv(ls) ==
    CHOOSE p \in 1..Len(ls) :
        /\ LinearOrConv2d(ls[p])
        /\ \A q \in (p + 1)..Len(ls) : ~LinearOrConv2d(ls[q])

Composites ==
    {"DuelingMlpDQNet", "DuelingCnnDQNet", "DdpgCnnActor", "DdpgMlpActor",
     "DdpgCnnQNet", "DdpgMlpQNet", "LSTMNet"}

Constructing == pc \in {"built", "raised"} /\ comp.cls \in Composites

\* the sub-network n got every key of the caller's dictionary with the
\* caller's value
CallerKeysReach(n) ==
    \A k \in DOMAIN comp.given[n] :
        comp.calls[n].kwargs[k] = comp.given[n][k]

\* the sub-network n got the default value of every default key that the
\* caller did not supply
DefaultsKept(n) ==
    \A k \in DOMAIN comp.defaults[n] \ DOMAIN comp.given[n] :
        comp.calls[n].kwargs[k] = comp.defaults[n][k]

\* C15 as stated: in each of the seven composites, every sub-network
\* constructor that is reached is called with every key of the caller's
\* dictionary at the caller's value and every other default key at its
\* default value.
C15_Original ==
    Constructing =>
        \A n \in DOMAIN comp.given :
            comp.reached[n] =>
                /\ comp.calls[n].called
                /\ CallerKeysReach(n)
                /\ DefaultsKept(n)

\* the keywords the composite passes to the constructor of n itself
OwnKeywords(n) ==
    IF comp.cls \in {"DuelingMlpDQNet", "DuelingCnnDQNet"}
       /\ n \in {"advantage", "value"}
    THEN {"out_features", "device"}
    ELSE {"device"}

\* the keys the composite sets after the caller's
ForcedKeys(n) ==
    IF comp.cls = "LSTMNet" /\ n = "lstm" THEN [batch_first |-> TRUE]
    ELSE EmptyDict

\* C15, amended: a caller's dictionary holding a keyword the composite
\* passes itself (device; out_features for the dueling advantage and
\* value networks) makes the construction raise TypeError; otherwise the
\* sub-network constructor is called with every caller key at the
\* caller's value, except LSTMNet's batch_first which is True whatever the
\* caller gave, and with every default key the caller did not supply at
\* its default value (LSTMNet has no defaults).
C15_ConfigMerge ==
    Constructing =>
        \A n \in DOMAIN comp.given :
            comp.reached[n] =>
                IF DOMAIN comp.given[n] \cap OwnKeywords(n) # {}
                THEN ~comp.calls[n].called /\ comp.raised = "TypeError"
                ELSE /\ comp.calls[n].called
                     /\ \A k \in DOMAIN comp.given[n] :
                          comp.calls[n].kwargs[k] =
                              IF k \in DOMAIN ForcedKeys(n)
                              THEN ForcedKeys(n)[k]
                              ELSE comp.given[n][k]
                     /\ DefaultsKept(n)
                     /\ comp.cls = "LSTMNet" =>
                          /\ comp.defaults[n] = EmptyDict
                          /\ n = "lstm" =>
                               comp.calls[n].kwargs["batch_first"]

C15_Witness ==
    /\ pc = "built" /\ comp.cls = "DdpgCnnQNet"
    /\ comp.given["mlp"] = [in_features |-> 3, bias_last_layer |-> FALSE]
    /\ comp.calls["mlp"].kwargs["in_features"] = 3
    /\ comp.calls["mlp"].kwargs["depth"] = 2
    /\ ~comp.nets["mlp"].layers[1].lazy

DdpgClasses == {"DdpgCnnActor", "DdpgMlpActor", "DdpgCnnQNet", "DdpgMlpQNet"}

\* the network of a DDPG composite whose last layer is reinitialised
DdpgNet == IF comp.cls = "DdpgMlpQNet" THEN comp.nets["mlp2"]
           ELSE comp.nets["mlp"]

\* every entry of q is a draw of rand_like * s - s / 2
Drawn(q, s) ==
    \A j \in 1..Len(q) :
        q[j] \in {(r * s) \div RandDen - s \div 2 : r \in Rand}

\* the last linear layer of the reinitialised network was drawn with
\* scale s
LastLayerDrawn(s) ==
    LET p == LastLinearOrConv(DdpgNet.layers)
    IN /\ Drawn(DdpgNet.params[p].weight, s)
       /\ Drawn(DdpgNet.params[p].bias, s)
       /\ Within(DdpgNet.params[p].weight, s)
       /\ Within(DdpgNet.params[p].bias, s)

\* C17 as stated: DdpgCnnActor, DdpgMlpActor and DdpgCnnQNet draw their
\* last layer with scale 6e-4, and DdpgMlpQNet with 6e-3.
C17_Original ==
    (pc = "built" /\ comp.cls \in DdpgClasses) =>
        LastLayerDrawn(IF comp.cls = "DdpgMlpQNet" THEN scale_6e_3
                       ELSE scale_6e_4)

\* C17, amended: DdpgCnnActor and DdpgCnnQNet draw their last layer with
\* scale 6e-4 (within [-3e-4, 3e-4]); DdpgMlpActor and DdpgMlpQNet with
\* scale 6e-3 (within [-3e-3, 3e-3]).
C17_DdpgScales ==
    (pc = "built" /\ comp.cls \in DdpgClasses) =>
        LastLayerDrawn(IF comp.cls \in {"DdpgMlpActor", "DdpgMlpQNet"}
                       THEN scale_6e_3 ELSE scale_6e_4)

C17_Witness ==
    /\ pc = "built" /\ comp.cls = "DdpgMlpActor"
    /\ LET p == LastLinearOrConv(DdpgNet.layers)
       IN /\ DdpgNet.params[p].weight # <<>>
          /\ ~Within(DdpgNet.params[p].weight, scale_6e_4)
          /\ DdpgNet.params[p].bias # <<>>

Duelings == {"DuelingMlpDQNet", "DuelingCnnDQNet"}

\* C19: right after the construction of a dueling network, every linear
\* or 2D-convolutional layer with a bias in its three sub-networks, a
\* shape-deferred first layer included, holds a bias of zeros, and its
\* weight is as its constructor drew it.
C19_DuelingBiasesZero ==
    (pc = "built" /\ comp.cls \in Duelings) =>
        \A n \in {"features", "advantage", "value"} :
            LET net == comp.nets[n]
            IN \A p \in 1..Len(net.layers) :
                 (LinearOrConv2d(net.layers[p]) /\ net.layers[p].bias) =>
                     /\ ~net.params[p].uninitialized
                     /\ net.params[p].bias = [j \in 1..BiasEntries |-> 0]
                     /\ net.params[p].weight =
                            InitialParams(net.layers)[p].weight

\* C16: the result of a dueling network is value + advantage - the mean
\* of advantage over the last axis, the value (or the advantage)
\* broadcast when it has one column; so the mean over the last axis of
\* result - value is 0.
C16_DuelingForward ==
    (pc = "returned" /\ comp.cls \in Duelings) =>
        LET k == Len(res.advantage[1])
            w == Len(res.value[1])
        IN \A b \in 1..Len(res.num) :
             LET sum == SumSeq(res.advantage[b])
                 val(i) == res.value[b][IF w = 1 THEN 1 ELSE i]
                 adv(i) == res.advantage[b][IF k = 1 THEN 1 ELSE i]
                 n == Len(res.num[b])
             IN /\ n = (IF k > w THEN k ELSE w)
                /\ \A i \in 1..n :
                     k * res.num[b][i]
                       = res.den * (k * val(i) + k * adv(i) - sum)
                /\ SumSeq([i \in 1..n |-> res.num[b][i] - res.den * val(i)])
                     = 0

C16_Witness ==
    /\ pc = "returned" /\ comp.cls = "DuelingCnnDQNet"
    /\ Len(res.num) = 2
    /\ res.advantage[1] = <<2, 0 - 1, 2>>
    /\ res.value[1] = <<3>>
    /\ res.den = 3
    /\ res.num[1] = <<12, 3, 12>>

(* ------------------------- DistributionalDQNnet ------------------------ *)

DistCalled ==
    pc \in {"returned", "failed"} /\ comp.cls = "DistributionalDQNnet"

\* C20: in a forward call of DistributionalDQNnet, a tensor of fewer than
\* 2 dimensions got from an input slot (through the wrapped network when
\* there is one) ends the call with RuntimeError at the check, and a
\* tensor of 2 or more dimensions passes it: its log-softmax is written
\* to the output slot, and the call fails at the check only on a tensor
\* of fewer than 2 dimensions.
C20_DistRankCheck ==
    DistCalled =>
        /\ \A i \in 1..Len(res.q_values) :
             IF Len(res.q_values[i].shape) < 2
             THEN /\ i = Len(res.q_values)
                  /\ pc = "failed"
                  /\ raised = "RuntimeError"
                  /\ res.at = "check"
             ELSE /\ ~(i = Len(res.q_values) /\ res.at = "check")
                  /\ comp.out_keys[i] \in DOMAIN td
                  /\ td[comp.out_keys[i]].shape = res.q_values[i].shape
                  /\ td[comp.out_keys[i]].data = res.q_values[i].data
        /\ res.at = "check" => res.q_values # <<>>
        /\ pc = "returned" =>
             Len(res.q_values) = Min({Len(comp.in_keys), Len(comp.out_keys)})

C20_Witness ==
    /\ DistCalled /\ pc = "failed"
    /\ res.at = "check"
    /\ Len(res.q_values) = 2
    /\ res.q_values[1].shape = <<1, 2, 3>>
    /\ res.q_values[2].shape = <<3>>
    /\ td["a"].by = "log_softmax"

(* ------------- ConvNet and Conv3dNet on the same arguments ------------- *)

\* what Conv3dNet resolves from the arguments a ConvNet was constructed
\* with
AsConv3dNet == Conv_init("Conv3dNet", [args EXCEPT !.cls = "Conv3dNet"])

ConvNetConstructed == pc # "idle" /\ args.cls = "ConvNet"

\* both constructors reject, or both accept with the same resolved depth
\* and per-layer sequences
ResolvedAlike ==
    With(AsConv3dNet, LAMBDA o :
         /\ (raised = "none") <=> (o.raised = "none")
         /\ raised = "none" =>
              /\ self.depth = o.self.depth
              /\ self.num_cells = o.self.num_cells
              /\ self.kernel_sizes = o.self.kernel_sizes
              /\ self.strides = o.self.strides
              /\ self.paddings = o.self.paddings)

\* C26 as stated: for every combination of depth, num_cells,
\* kernel_sizes, strides and paddings, ConvNet and Conv3dNet both reject
\* or both accept with the same resolved depth and per-layer sequences;
\* an explicit depth d with num_cells omitted yields d layers of width 32
\* in both.
C26_Original ==
    ConvNetConstructed =>
        /\ ResolvedAlike
        /\ (args.num_cells = NoneArg /\ args.depth # None /\ args.depth >= 1
            /\ AsConv3dNet.raised = "none") =>
             /\ raised = "none"
             /\ self.num_cells = Repeat(32, args.depth)

\* C26 as amended: ConvNet and Conv3dNet resolve alike whenever num_cells
\* is given or depth is absent or 3; with num_cells omitted and an
\* explicit depth d >= 1 that Conv3dNet accepts, Conv3dNet has d layers of
\* width 32, while ConvNet keeps [32, 32, 32]: it accepts d = 3 only and
\* rejects any other d.
C26_ConvResolveAlike ==
    ConvNetConstructed =>
        /\ (args.num_cells # NoneArg \/ args.depth \in {None, 3})
             => ResolvedAlike
        /\ (args.num_cells = NoneArg /\ args.depth # None /\ args.depth >= 1
            /\ AsConv3dNet.raised = "none") =>
             /\ AsConv3dNet.self.num_cells = Repeat(32, args.depth)
             /\ AsConv3dNet.self.depth = args.depth
             /\ IF args.depth = 3
                THEN raised = "none" /\ self.num_cells = <<32, 32, 32>>
                ELSE raised # "none"

C26_Witness ==
    /\ ConvNetConstructed
    /\ args.num_cells = NoneArg /\ args.depth = 2
    /\ raised = "RuntimeError"
    /\ AsConv3dNet.raised = "none"
    /\ AsConv3dNet.self.num_cells = <<32, 32>>
    /\ AsConv3dNet.self.kernel_sizes = <<3, 3>>


\* C29: constructing any of the seven composites leaves every dictionary
\* the caller supplied with exactly the keys and values it had before the
\* constructor was called.
C29_CallerDictsUnchanged ==
    Constructing =>
        \A n \in DOMAIN comp.given : comp.kwargs[n] = comp.given[n]


(* ------------------- slots of DistributionalDQNnet --------------------- *)

\* the tensordict the call was made on, as it was before the call
Before == inputs[1]

\* the number of (in_key, out_key) pairs the loop runs over
Pairs == Min({Len(comp.in_keys), Len(comp.out_keys)})

\* x is the log-softmax of the q-values computed from the tensor y
LogSoftmaxOf(x, y) ==
    /\ x.shape = (IF comp.dqn.present
                  THEN MLP_forward(comp.dqn.args, comp.dqn.layers, <<y>>).out
                  ELSE y).shape
    /\ x.data = y.data
    /\ x.by = IF comp.dqn.present THEN "log_softmax(MLP)" ELSE "log_softmax"

\* the fractions x.num[i][j] / x.den[i][j] add up to 1 along i, for every j
SumsToOneAlongAtoms(x) ==
    \A j \in 1..Len(x.num[1]) :
        SumSeq([i \in 1..Len(x.num) |->
                  x.num[i][j] * prod([k \in 1..Len(x.num) |->
                                        IF k = i THEN 1 ELSE x.den[k][j]])])
        = prod([k \in 1..Len(x.num) |-> x.den[k][j]])

\* C21: in_keys and out_keys each default, independently, to
\* ["action_value"] when unspecified; with a single (in_key, out_key)
\* pair a call that returns has written the log-softmax over the
\* second-to-last axis of the tensor of the in_key slot into the out_key
\* slot (its exponentials add up to 1 along the atoms axis), has left
\* every other slot as it was, and returns the container it was given.
C21_DistSlotContract ==
    comp.cls = "DistributionalDQNnet" =>
        /\ comp.in_keys = IF comp.given.in_keys = <<>>
                          THEN <<"action_value">> ELSE comp.given.in_keys
        /\ comp.out_keys = IF comp.given.out_keys = <<>>
                           THEN <<"action_value">> ELSE comp.given.out_keys
        /\ (pc = "returned" /\ Pairs = 1) =>
             /\ LogSoftmaxOf(td[comp.out_keys[1]], Before[comp.in_keys[1]])
             /\ res.exp.num # <<>>
             /\ SumsToOneAlongAtoms(res.exp)
             /\ DOMAIN td = DOMAIN Before \cup {comp.out_keys[1]}
             /\ \A k \in DOMAIN td \ {comp.out_keys[1]} : td[k] = Before[k]

C21_Witness ==
    /\ comp.cls = "DistributionalDQNnet" /\ pc = "returned"
    /\ comp.given = [in_keys |-> <<>>, out_keys |-> <<"b">>]
    /\ comp.in_keys = <<"action_value">>
    /\ ~comp.dqn.present
    /\ DOMAIN Before = {"action_value", "a"}
    /\ Before["action_value"].shape = <<1, 2, 3>>
    /\ td["b"] = Tensor(<<1, 2, 3>>, <<1>>, "log_softmax")
    /\ td["a"] = Before["a"]
    /\ res.exp.num = <<<<1, 2, 3>>, <<2, 3, 4>>>>
    /\ res.exp.den = <<<<3, 5, 7>>, <<3, 5, 7>>>>


\* the call failed at the rank check of line 917
FailedAtCheck ==
    /\ comp.cls = "DistributionalDQNnet"
    /\ pc = "failed" /\ res.at = "check" /\ raised = "RuntimeError"

\* the out keys of the pairs before pair n
OutKeysBefore(n) == {comp.out_keys[j] : j \in 1..(n - 1)}

\* C27 as stated: for any in_keys and out_keys, a call that fails with the
\* rank-below-2 error has written no output slot, and the container holds
\* exactly what it held before the call.
C27_Original == FailedAtCheck => td = Before

\* C27 as amended: a call that fails with the rank-below-2 error at pair
\* n has written the out slots of the pairs before n, each with a
\* log-softmax, and nothing else: every other slot, the out slot of pair
\* n included, holds what it held before the call; when the first pair
\* fails, and so whenever there is a single pair, the container holds
\* exactly what it held before the call.
C27_DistFailureWrites ==
    FailedAtCheck =>
        With(Len(res.q_values), LAMBDA n :
             /\ DOMAIN td = DOMAIN Before \cup OutKeysBefore(n)
             /\ \A k \in DOMAIN td \ OutKeysBefore(n) : td[k] = Before[k]
             /\ \A k \in OutKeysBefore(n) :
                    td[k].by \in {"log_softmax", "log_softmax(MLP)"}
             /\ n = 1 => td = Before)

C27_Witness ==
    /\ FailedAtCheck
    /\ comp.in_keys = <<"a", "b">> /\ comp.out_keys = <<"a", "b">>
    /\ ~comp.dqn.present
    /\ Len(res.q_values) = 2
    /\ Before = [a |-> Tensor(<<2, 3>>, <<2>>, "input"),
                 b |-> Tensor(<<3>>, <<3>>, "input")]
    /\ td = [a |-> Tensor(<<2, 3>>, <<2>>, "log_softmax"),
             b |-> Tensor(<<3>>, <<3>>, "input")]


\* the call returned from as many in keys as out keys, the out keys being
\* pairwise distinct
ReturnedFromDistinctPairs ==
    /\ comp.cls = "DistributionalDQNnet" /\ pc = "returned"
    /\ Len(comp.in_keys) = Len(comp.out_keys)
    /\ \A i, j \in 1..Pairs : i # j => comp.out_keys[i] # comp.out_keys[j]

\* C28 as stated: after a successful call on in_keys and out_keys of the
\* same length with pairwise distinct out keys, each slot out_keys[i]
\* holds the log-softmax of the tensor stored under in_keys[i] before the
\* call began, even when an out key of an earlier pair is the in key of a
\* later pair.
C28_Original ==
    ReturnedFromDistinctPairs =>
        \A i \in 1..Pairs :
            /\ comp.in_keys[i] \in DOMAIN Before
            /\ LogSoftmaxOf(td[comp.out_keys[i]], Before[comp.in_keys[i]])

\* the tensor pair i read: what an earlier pair wrote under in_keys[i]
\* when one did, and what the slot held before the call otherwise
ReadBy(i) ==
    IF comp.in_keys[i] \in OutKeysBefore(i) THEN td[comp.in_keys[i]]
    ELSE Before[comp.in_keys[i]]

\* C28 as amended: after a successful call on in_keys and out_keys of the
\* same length with pairwise distinct out keys, each slot out_keys[i]
\* holds the log-softmax of the tensor stored under in_keys[i] when pair i
\* is processed: the tensor stored there before the call began when no
\* earlier pair has in_keys[i] as its out key, and the log-softmax that
\* the earlier pair wrote there otherwise.
C28_DistPairsInOrder ==
    ReturnedFromDistinctPairs =>
        \A i \in 1..Pairs :
            /\ comp.in_keys[i] \in DOMAIN Before \cup OutKeysBefore(i)
            /\ LogSoftmaxOf(td[comp.out_keys[i]], ReadBy(i))

C28_Witness ==
    /\ ReturnedFromDistinctPairs
    /\ comp.in_keys = <<"a", "b">> /\ comp.out_keys = <<"b", "c">>
    /\ ~comp.dqn.present
    /\ Before = [a |-> Tensor(<<2, 3>>, <<2>>, "input"),
                 b |-> Tensor(<<1, 2, 3>>, <<3>>, "input")]
    /\ td = [a |-> Tensor(<<2, 3>>, <<2>>, "input"),
             b |-> Tensor(<<2, 3>>, <<2>>, "log_softmax"),
             c |-> Tensor(<<2, 3>>, <<2>>, "log_softmax")]


(* --------------------------- LSTMNet calls ----------------------------- *)

\* _lstm was entered: the upstream MLP returned
LSTMCalled ==
    /\ comp.cls = "LSTMNet" /\ pc \in {"returned", "failed"}
    /\ res.at # "mlp"

LSTMReturned == comp.cls = "LSTMNet" /\ pc = "returned"

\* the input of the call, its rank, and the output of the upstream MLP
LSTMInput == inputs[1]
LSTMRank == Len(LSTMInput.shape)
LSTMEmbedded ==
    DropLast(LSTMInput.shape, 1)
        \o <<comp.calls["mlp"].kwargs["out_features"].v>>

LSTMOutFeatures == comp.calls["linear"].kwargs["out_features"].v

\* the same call on the input with a batch axis of size 1 in front, the
\* hidden tensors that were supplied getting that axis too
BatchedCall ==
    LSTMNet_forward(comp, unsqueeze(LSTMInput, 0),
                    IF inputs[2] = NoTensor THEN NoTensor
                    ELSE unsqueeze(inputs[2], 0),
                    IF inputs[3] = NoTensor THEN NoTensor
                    ELSE unsqueeze(inputs[3], 0)).res

\* C22: an input of rank 1 is taken as unbatched single-step (batch and
\* time axes added), of rank 2 as batched single-step (time axis added),
\* of rank 3 or more as batched multi-step (nothing added); the added
\* axes are removed from the output: for rank 2 the primary output has no
\* time axis, and for rank 1 each of the 5 values has the shape of the
\* rank-2 call with batch size 1 minus its leading batch dimension.
C22_LSTMInputModes ==
    LSTMCalled =>
        /\ res.input.shape =
             IF LSTMRank = 1 THEN <<1, 1>> \o LSTMEmbedded
             ELSE IF LSTMRank = 2
             THEN <<LSTMEmbedded[1], 1, LSTMEmbedded[2]>>
             ELSE LSTMEmbedded
        /\ (LSTMReturned /\ LSTMRank = 2) =>
             res.out[1].shape = <<LSTMInput.shape[1], LSTMOutFeatures>>
        /\ (LSTMReturned /\ LSTMRank >= 3) =>
             res.out[1].shape =
                 <<LSTMInput.shape[1], LSTMInput.shape[2], LSTMOutFeatures>>
        /\ (LSTMReturned /\ LSTMRank = 1) =>
             With(BatchedCall, LAMBDA b :
                  /\ b.raised = "none"
                  /\ \A i \in 1..5 :
                       /\ b.out[i].shape[1] = 1
                       /\ res.out[i].shape = Tail(b.out[i].shape)
                       /\ res.out[i].data = b.out[i].data)

C22_Witness ==
    /\ LSTMReturned /\ LSTMRank = 1
    /\ inputs[2] = Tensor(<<2, 5>>, <<11>>, "input")
    /\ inputs[3] = Tensor(<<2, 5>>, <<21>>, "input")
    /\ res.input.shape = <<1, 1, 4>>
    /\ [i \in 1..5 |-> res.out[i].shape]
         = <<<<2>>, <<2, 5>>, <<2, 5>>, <<2, 5>>, <<2, 5>>>>
    /\ res.out[4].data = <<111>> /\ res.out[5].data = <<221>>


\* the zeros _lstm creates for a missing hidden tensor: [batch,
\* num_layers, hidden_size] for a single step, [batch, steps, num_layers,
\* hidden_size] for several
ZerosExpected ==
    Tensor((IF LSTMRank <= 2 THEN <<res.input.shape[1]>>
            ELSE <<res.input.shape[1], res.input.shape[2]>>)
             \o <<LSTM_num_layers(comp), LSTM_hidden_size(comp)>>,
           IF LSTMRank <= 2 THEN <<0>> ELSE Repeat(0, res.input.shape[2]),
           "zeros")

\* what is returned of a hidden tensor h the call went on with: an input
\* of rank 1 has the batch axis removed
ReturnedOf(h) == IF LSTMRank = 1 THEN squeeze(h, 0) ELSE h

\* C23: when neither hidden tensor is supplied both are created as zeros
\* of shape [batch, num_layers, hidden_size] (single step) or [batch,
\* steps, num_layers, hidden_size] (several steps) and are returned as the
\* hidden inputs; when exactly one is supplied the call fails before the
\* recurrent cell is evaluated; when both are supplied they are used and
\* returned as given.
C23_LSTMHiddenState ==
    LSTMCalled =>
        /\ (inputs[2] = NoTensor /\ inputs[3] = NoTensor) =>
             /\ res.at \in {"cell", "return"}
             /\ res.created
             /\ res.hidden_in = <<ZerosExpected, ZerosExpected>>
             /\ LSTMReturned =>
                  /\ res.out[2] = ReturnedOf(ZerosExpected)
                  /\ res.out[3] = ReturnedOf(ZerosExpected)
        /\ ((inputs[2] = NoTensor) # (inputs[3] = NoTensor)) =>
             /\ pc = "failed" /\ raised = "RuntimeError"
             /\ res.at = "hidden" /\ res.cell = <<>>
        /\ (inputs[2] # NoTensor /\ inputs[3] # NoTensor) =>
             /\ ~res.created
             /\ LSTMReturned =>
                  /\ res.out[2] = inputs[2] /\ res.out[3] = inputs[3]
                  /\ res.cell[1].data = <<100 + inputs[2].data[1]>>
                  /\ res.cell[2].data = <<200 + inputs[3].data[1]>>

C23_Witness ==
    /\ LSTMReturned /\ LSTMInput.shape = <<2, 3, 3>>
    /\ inputs[2] = NoTensor /\ inputs[3] = NoTensor
    /\ res.created
    /\ res.out[2] = Tensor(<<2, 3, 2, 5>>, <<0, 0, 0>>, "zeros")
    /\ res.out[3] = res.out[2]


\* C24: for a batched input of T >= 1 steps each of the two hidden-state
\* outputs has a time axis of length T, its first T - 1 slices zero and
\* its last slice the final hidden state of the recurrent cell, unpadded;
\* for a single-step input (rank 1 or 2) no padding and no time axis is
\* added.
C24_LSTMHiddenPadding ==
    LSTMReturned =>
        \A k \in {1, 2} :
            IF LSTMRank >= 3
            THEN /\ res.out[3 + k].shape =
                      <<res.cell[k].shape[1], LSTMInput.shape[2]>>
                        \o Tail(res.cell[k].shape)
                 /\ Len(res.out[3 + k].data) = LSTMInput.shape[2]
                 /\ \A s \in 1..(LSTMInput.shape[2] - 1) :
                        res.out[3 + k].data[s] = 0
                 /\ res.out[3 + k].data[LSTMInput.shape[2]]
                      = res.cell[k].data[1]
                 /\ res.cell[k].data[1] # 0
            ELSE /\ res.out[3 + k] = ReturnedOf(res.cell[k])
                 /\ res.out[3 + k].shape =
                      (IF LSTMRank = 2 THEN <<LSTMInput.shape[1]>> ELSE <<>>)
                        \o <<LSTM_num_layers(comp), LSTM_hidden_size(comp)>>

C24_Witness ==
    /\ LSTMReturned /\ LSTMInput.shape = <<2, 3, 3>>
    /\ inputs[2] = Tensor(<<2, 3, 1, 5>>, <<11, 12, 13>>, "input")
    /\ inputs[3] = Tensor(<<2, 3, 1, 5>>, <<21, 22, 23>>, "input")
    /\ res.out[4] = Tensor(<<2, 3, 1, 5>>, <<0, 0, 111>>, "lstm")
    /\ res.out[5] = Tensor(<<2, 3, 1, 5>>, <<0, 0, 221>>, "lstm")

\* C30 as stated: in each input mode, and whether the hidden inputs are
\* supplied or created as zeros, the returned hidden0_out and hidden1_out
\* have exactly the shape of the returned hidden0_in and hidden1_in.
C30_Original ==
    LSTMReturned =>
        /\ res.out[4].shape = res.out[2].shape
        /\ res.out[5].shape = res.out[3].shape

\* hidden tensor k was created as zeros, or was supplied with as many
\* time steps as the input has
HiddenStepsAsInput(k) ==
    \/ res.created
    \/ LSTMRank <= 2
    \/ inputs[1 + k].shape[2] = LSTMInput.shape[2]

\* C30 as amended: in each input mode the returned hidden0_out and
\* hidden1_out have the shape a call on an input of the same rank and
\* batch / time sizes creates for missing hidden inputs, so they are
\* always shape-valid hidden inputs for a following call; they have
\* exactly the shape of the returned hidden0_in and hidden1_in when these
\* were created as zeros, when the input is single-step, or when the
\* supplied multi-step hidden tensors have as many time steps as the
\* input. Supplied hidden tensors with another number of time steps are
\* accepted (only their first step is read) and returned as given, while
\* the hidden outputs are padded to the input's number of steps.
C30_LSTMStateThreading ==
    LSTMReturned =>
        \A k \in {1, 2} :
            /\ res.out[3 + k].shape = ReturnedOf(ZerosExpected).shape
            /\ IF HiddenStepsAsInput(k)
               THEN res.out[3 + k].shape = res.out[1 + k].shape
               ELSE /\ res.out[1 + k] = inputs[1 + k]
                    /\ res.out[3 + k].shape[2] = LSTMInput.shape[2]
                    /\ res.out[3 + k].shape[2] # res.out[1 + k].shape[2]

C30_Witness ==
    /\ LSTMReturned /\ LSTMInput.shape = <<2, 3, 3>>
    /\ inputs[2] = Tensor(<<2, 1, 1, 5>>, <<11>>, "input")
    /\ inputs[3] = Tensor(<<2, 1, 1, 5>>, <<21>>, "input")
    /\ res.out[2].shape = <<2, 1, 1, 5>>
    /\ res.out[4].shape = <<2, 3, 1, 5>>


(* ------------------------- OnlineDTActor calls ------------------------- *)

\* C25: for every value t in [-1, 1] that the bounded transform produces,
\* the mapped log-std log_std_min + 0.5 * (log_std_max - log_std_min)
\* * (t + 1) lies within [log_std_min, log_std_max] = [-5, 2], t = -1
\* being mapped to -5 and t = 1 to 2, the map being monotone in t; the
\* returned scale is the exponential of that value.
C25_OnlineDTLogStdRange ==
    (comp.cls = "OnlineDTActor" /\ pc = "returned") =>
        /\ comp.log_std_min = 0 - 5 /\ comp.log_std_max = 2
        /\ res.log_std.den > 0
        /\ comp.log_std_min * res.log_std.den <= res.log_std.num
        /\ res.log_std.num <= comp.log_std_max * res.log_std.den
        /\ res.tanh = 0 - TanhDen =>
             res.log_std.num = comp.log_std_min * res.log_std.den
        /\ res.tanh = TanhDen =>
             res.log_std.num = comp.log_std_max * res.log_std.den
        /\ \A m \in (0 - TanhDen)..TanhDen :
             m < res.tanh =>
                 OnlineDTActor_log_std(comp, m).num < res.log_std.num
        /\ res.std = [fn |-> "exp", num |-> res.log_std.num,
                      den |-> res.log_std.den]

C25_Witness ==
    /\ comp.cls = "OnlineDTActor" /\ pc = "returned"
    /\ res.tanh = TanhDen
    /\ res.log_std.num = 2 * res.log_std.den
    /\ res.std.fn = "exp"


====
